---- MODULE Spec2Model ----
(***************************************************************************)
(* Model of the azdo command line tool: the run completion monitor         *)
(* (waitForCompletion), the pipeline selection resolver, the local         *)
(* definition locator, the parameter spec extractor and the parameter      *)
(* merge of the build command.                                             *)
(*                                                                         *)
(* Text is modelled as a sequence of one-character strings, so that        *)
(* trimming, normalisation, substring search and numeric parsing are       *)
(* computed character by character as the code computes them.              *)
(***************************************************************************)
EXTENDS Integers, Sequences, FiniteSets, TLC

(***************************************************************************)
(* Bounds of the model.                                                    *)
(***************************************************************************)
\* most getRun queries one wait may issue before the model stops it
MaxQueries == 4
\* most files findYamlFiles may return
MaxFiles == 3
\* longest ordinary getRun latency, in ms (a query may also outlast the timeout)
MaxLatency == 2
\* how much longer than pollMs a suspension may last, in ms
MaxOvershoot == 1
\* most pipelines the catalog of the config file may hold
MaxEntries == 2
\* most items the parameters section of a YAML document may hold
MaxParams == 2

\* leftover arguments and --param entries on a command line
MaxArgs == 3

\* pipelines listed by the service
MaxPipelines == 3

VARIABLES
    \* ---- waitForCompletion (src/unnamed/part_001) ----
    wpc,        \* position: "idle", "query", "sleep", "returned", "timedout", "failed"
    now,        \* Date.now()
    started,    \* const started = Date.now()
    options,    \* WaitOptions: [pollMs, timeoutMs, onUpdate]
    run,        \* const run = await getRun(...): the latest response
    outcome,    \* what the promise settled with: a RunInfo, or the error thrown
    queries,    \* history: number of getRun calls issued
    sleeps,     \* history: number of sleep(pollMs) suspensions
    observed,   \* history: serials of the responses handed to options.onUpdate
    firstState, \* history: state of the first response
    completedAt,\* history: serial of the first response with state completed
    thrownAt,   \* history: serial of the query that threw
    \* ---- selectLocalYamlFile (src/src/cli.ts) ----
    lpc,        \* position: "idle", "prompt", "done", "exited"
    locArgs,    \* the arguments of the call
    mapped,     \* files.map(...): every file with its score
    offered,    \* the options of the select prompt
    located,    \* the file returned, or null
    \* ---- resolvePipelineSelection (src/src/cli.ts) ----
    rpc,        \* position: "idle", "prompt", "returned", "threw", "exited"
    configPipelines, \* config.pipelines
    optionsPipeline, \* options.pipeline: the identifier given, or undefined
    entries,    \* const entries = listConfigPipelines(config.pipelines)
    selection,  \* the PipelineSelection returned
    resolveError, \* the message of the error thrown
    \* ---- extractParamsFromYaml (src/src/cli.ts) ----
    xpc,        \* position: "idle", "returned", "threw"
    yamlContent,\* the YAML text, or null
    yamlLabel,  \* build action: where yamlContent comes from: "none", "path", "remote", "pick"
    specs,      \* the PipelineParamSpec list extracted
    \* ---- the action of the build command (src/src/cli.ts) ----
    bpc,        \* position in the action
    exitCode,   \* the exit code of the process
    buildError, \* the message of the error the catch reported
    optionsPrompt, \* options.prompt
    calls,      \* history: the service calls made, getRun aside
    pidx,       \* promptForParameters: the place of the param prompted for
    initialValue, \* promptForParameters: the initialValue of the prompt shown
    parameters, \* let parameters (the result of promptForParameters while it runs)
    overrideParams, \* const overrideParams
    flagParams, \* const flagParams
    mergedParams, \* const mergedParams
    \* ---- parseParams and parseUnknownParamFlags (src/src/cli.ts) ----
    ppc,        \* position: "idle", "params", "flags"
    cliInput,   \* the argument of the call: a list of texts
    cliParams,  \* the record returned
    \* ---- buildPipelineMap (src/src/cli.ts) ----
    mpc,        \* position: "idle", "returned"
    pipelineList, \* the argument of the call: a list of PipelineInfo
    pipelineMap \* the record returned

monVars == <<wpc, now, started, options, run, outcome, queries, sleeps,
             observed, firstState, completedAt, thrownAt>>

locVars == <<lpc, locArgs, mapped, offered, located>>

resVars == <<rpc, configPipelines, optionsPipeline, entries, selection,
             resolveError>>

extVars == <<xpc, yamlContent, yamlLabel, specs>>

bldVars == <<bpc, exitCode, buildError, optionsPrompt, calls, pidx, initialValue, parameters,
             overrideParams, flagParams, mergedParams>>

parVars == <<ppc, cliInput, cliParams>>

mapVars == <<mpc, pipelineList, pipelineMap>>

vars == <<monVars, locVars, resVars, extVars, bldVars, parVars, mapVars>>

\* what a step of the monitor, of the locator, of the resolver or of the
\* extractor leaves alone
outsideMonitor == <<locVars, resVars, extVars, bldVars, parVars, mapVars>>
outsideLocator == <<monVars, resVars, extVars, bldVars, parVars, mapVars>>
outsideResolver == <<monVars, locVars, extVars, bldVars, parVars, mapVars>>
outsideExtractor == <<monVars, locVars, resVars, bldVars, parVars, mapVars>>

(***************************************************************************)
(* Text.  A JavaScript string is a sequence of one-character strings;      *)
(* positions are 0-based as in JavaScript, -1 meaning "not found".         *)
(***************************************************************************)
DigitChars == <<"0", "1", "2", "3", "4", "5", "6", "7", "8", "9">>
UpperChars == <<"A", "B", "C", "D", "E", "F", "G", "H", "I", "J", "K", "L", "M",
                "N", "O", "P", "Q", "R", "S", "T", "U", "V", "W", "X", "Y", "Z">>
LowerChars == <<"a", "b", "c", "d", "e", "f", "g", "h", "i", "j", "k", "l", "m",
                "n", "o", "p", "q", "r", "s", "t", "u", "v", "w", "x", "y", "z">>

IsDigit(c) == \E i \in 1 .. 10 : DigitChars[i] = c
\* \s of a regular expression, String.prototype.trim
IsSpace(c) == c \in {" ", "\t", "\n", "\r"}

DigitValue(c) == (CHOOSE i \in 1 .. 10 : DigitChars[i] = c) - 1

\* the lower-case letter of every upper-case letter
LowerOf ==
    [c \in {UpperChars[i] : i \in 1 .. 26} |->
        LowerChars[CHOOSE i \in 1 .. 26 : UpperChars[i] = c]]

ToLowerChar(c) == IF c \in DOMAIN LowerOf THEN LowerOf[c] ELSE c

\* String.prototype.toLowerCase
RECURSIVE ToLowerCase(_)
ToLowerCase(s) ==
    IF s = <<>> THEN <<>> ELSE <<ToLowerChar(Head(s))>> \o ToLowerCase(Tail(s))

\* String.prototype.slice(from, to) for 0 <= from, to <= length
Slice(s, from, to) == SubSeq(s, from + 1, to)

\* String.prototype.indexOf(c) for a one-character c
IndexOf(s, c) ==
    IF \E i \in 1 .. Len(s) : s[i] = c
    THEN (CHOOSE i \in 1 .. Len(s) : s[i] = c /\ \A j \in 1 .. i - 1 : s[j] # c) - 1
    ELSE -1

\* String.prototype.lastIndexOf(c) for a one-character c
LastIndexOf(s, c) ==
    IF \E i \in 1 .. Len(s) : s[i] = c
    THEN (CHOOSE i \in 1 .. Len(s) : s[i] = c /\ \A j \in i + 1 .. Len(s) : s[j] # c) - 1
    ELSE -1

\* String.prototype.startsWith / endsWith / includes
StartsWith(s, p) == Len(p) <= Len(s) /\ SubSeq(s, 1, Len(p)) = p
EndsWith(s, p) == Len(p) <= Len(s) /\ SubSeq(s, Len(s) - Len(p) + 1, Len(s)) = p
Includes(s, sub) ==
    \E i \in 0 .. Len(s) - Len(sub) : SubSeq(s, i + 1, i + Len(sub)) = sub

RECURSIVE TrimStart(_)
TrimStart(s) == IF s # <<>> /\ IsSpace(Head(s)) THEN TrimStart(Tail(s)) ELSE s

RECURSIVE TrimEnd(_)
TrimEnd(s) ==
    IF s # <<>> /\ IsSpace(s[Len(s)]) THEN TrimEnd(SubSeq(s, 1, Len(s) - 1)) ELSE s

\* String.prototype.trim
Trim(s) == TrimEnd(TrimStart(s))

\* the characters of s that satisfy keep, in order
RECURSIVE KeepChars(_, _)
KeepChars(s, keep) ==
    IF s = <<>> THEN <<>>
    ELSE IF Head(s) \in keep THEN <<Head(s)>> \o KeepChars(Tail(s), keep)
    ELSE KeepChars(Tail(s), keep)

LowerAlnum == {DigitChars[i] : i \in 1 .. 10} \cup {LowerChars[i] : i \in 1 .. 26}

(***************************************************************************)
(* JavaScript values.  A value is a record of its kind (typeof, with null  *)
(* and array told apart) and its content.                                  *)
(***************************************************************************)
JsValue(kind, val) == [kind |-> kind, val |-> val]

\* a number: NaN, or sign, whole part and the digits after the decimal
\* point (without trailing zeros)
JsNumber(nan, neg, whole, frac) ==
    [nan |-> nan, neg |-> neg, whole |-> whole, frac |-> frac]

NaN == JsNumber(TRUE, FALSE, 0, <<>>)
IntNum(n) == JsNumber(FALSE, n < 0, IF n < 0 THEN -n ELSE n, <<>>)

Undefined == JsValue("undefined", 0)
Null == JsValue("null", 0)
Bool(b) == JsValue("boolean", b)
Num(n) == JsValue("number", n)
Str(s) == JsValue("string", s)
Arr(items) == JsValue("array", items)
\* an object: its own properties as <<key, value>> pairs, in insertion order
Obj(props) == JsValue("object", props)

\* obj[prop]: the property of an object, undefined if it has none or if v
\* is no object
GetProp(v, prop) ==
    IF v.kind = "object" /\ \E i \in 1 .. Len(v.val) : v.val[i][1] = prop
    THEN v.val[CHOOSE i \in 1 .. Len(v.val) : v.val[i][1] = prop][2]
    ELSE Undefined

\* the property names the code reads
TextId == <<"i", "d">>
TextName == <<"n", "a", "m", "e">>
TextBranch == <<"b", "r", "a", "n", "c", "h">>
TextPath == <<"p", "a", "t", "h">>
TextParameters == <<"p", "a", "r", "a", "m", "e", "t", "e", "r", "s">>
TextType == <<"t", "y", "p", "e">>
TextDefault == <<"d", "e", "f", "a", "u", "l", "t">>
TextValues == <<"v", "a", "l", "u", "e", "s">>

\* Number.isNaN, Number.isInteger
IsNaN(n) == n.nan
IsInteger(n) == ~n.nan /\ n.frac = <<>>

\* truthiness (Boolean(v), !v)
Truthy(v) ==
    CASE v.kind = "undefined" -> FALSE
      [] v.kind = "null" -> FALSE
      [] v.kind = "boolean" -> v.val
      [] v.kind = "number" -> ~v.val.nan /\ (v.val.whole # 0 \/ v.val.frac # <<>>)
      [] v.kind = "string" -> v.val # <<>>
      [] OTHER -> TRUE

\* a ?? b
Coalesce(a, b) == IF a.kind \in {"undefined", "null"} THEN b ELSE a

\* value of a string of digits
RECURSIVE DigitsValue(_)
DigitsValue(s) ==
    IF s = <<>> THEN 0
    ELSE 10 * DigitsValue(SubSeq(s, 1, Len(s) - 1)) + DigitValue(s[Len(s)])

AllDigits(s) == \A i \in 1 .. Len(s) : IsDigit(s[i])

RECURSIVE StripTrailingZeros(_)
StripTrailingZeros(s) ==
    IF s # <<>> /\ s[Len(s)] = "0" THEN StripTrailingZeros(SubSeq(s, 1, Len(s) - 1))
    ELSE s

\* Number(text): white space is trimmed, the empty string is 0, an optional
\* sign, then digits with an optional fraction ("5", "5.", ".5", "1.50").
\* Exponents, hexadecimal forms and Infinity do not occur in the texts of
\* this model and are read as NaN here.
StringToNumber(text) ==
    LET s == Trim(text)
        signed == s # <<>> /\ Head(s) \in {"+", "-"}
        body == IF signed THEN Tail(s) ELSE s
        dot == IndexOf(body, ".")
        ip == IF dot = -1 THEN body ELSE Slice(body, 0, dot)
        fp == IF dot = -1 THEN <<>> ELSE Slice(body, dot + 1, Len(body))
        frac == StripTrailingZeros(fp)
        whole == DigitsValue(ip)
    IN  IF s = <<>> THEN IntNum(0)
        ELSE IF AllDigits(ip) /\ AllDigits(fp) /\ (ip # <<>> \/ fp # <<>>)
        THEN JsNumber(FALSE,
                      signed /\ Head(s) = "-" /\ (whole # 0 \/ frac # <<>>),
                      whole, frac)
        ELSE NaN

\* Number(v) for any value v
ToNumber(v) ==
    CASE v.kind = "undefined" -> NaN
      [] v.kind = "null" -> IntNum(0)
      [] v.kind = "boolean" -> IF v.val THEN IntNum(1) ELSE IntNum(0)
      [] v.kind = "number" -> v.val
      [] v.kind = "string" -> StringToNumber(v.val)
      [] OTHER -> NaN

(***************************************************************************)
(* Local definition locator (src/src/cli.ts, scoreYamlCandidate and        *)
(* selectLocalYamlFile).                                                   *)
(***************************************************************************)
\* one element of the scored array
ScoredItem(file, score) == [file |-> file, score |-> score]

\* the arguments of one selectLocalYamlFile call; files is what findYamlFiles
\* returned, in enumeration order
LocatorArgs(files, pipelineKey, pipelineName, interactive) ==
    [files |-> files, pipelineKey |-> pipelineKey, pipelineName |-> pipelineName,
     interactive |-> interactive]

\* path.basename(p): the part after the last separator
LastSegment(p) == Slice(p, LastIndexOf(p, "/") + 1, Len(p))

\* path.extname(p): from the last dot of the last segment, unless that dot
\* is its first character or there is none
ExtName(p) ==
    LET b == LastSegment(p)
        i == LastIndexOf(b, ".")
    IN  IF i <= 0 THEN <<>> ELSE Slice(b, i, Len(b))

\* path.basename(p, ext)
BaseName(p, ext) ==
    LET b == LastSegment(p)
    IN  IF ext # <<>> /\ b # ext /\ EndsWith(b, ext)
        THEN Slice(b, 0, Len(b) - Len(ext))
        ELSE b

\* normalizeForMatch(value): "" for an absent or empty value, else lower
\* case with every run of other characters removed
NormalizeForMatch(value) ==
    IF ~Truthy(value) THEN <<>>
    ELSE KeepChars(ToLowerCase(value.val), LowerAlnum)

WeightBaseKey == 8
WeightBaseName == 6
WeightPathKey == 4
WeightPathName == 3
WeightAzurePipelines == 2
WeightPipeline == 1

AzurePipelinesText ==
    <<"a", "z", "u", "r", "e", "-", "p", "i", "p", "e", "l", "i", "n", "e", "s">>
PipelineText == <<"p", "i", "p", "e", "l", "i", "n", "e">>

\* scoreYamlCandidate with the two key weights exchanged
ScoreYamlCandidateSwapped(filePath, pipelineKey, pipelineName) ==
    LET base == ToLowerCase(BaseName(filePath, ExtName(filePath)))
        baseNorm == NormalizeForMatch(Str(base))
        pathNorm == NormalizeForMatch(Str(filePath))
        keyNorm == NormalizeForMatch(pipelineKey)
        nameNorm == NormalizeForMatch(pipelineName)
    IN    (IF keyNorm # <<>> /\ Includes(baseNorm, keyNorm) THEN WeightPathKey ELSE 0)
        + (IF nameNorm # <<>> /\ Includes(baseNorm, nameNorm) THEN WeightBaseName ELSE 0)
        + (IF keyNorm # <<>> /\ Includes(pathNorm, keyNorm) THEN WeightBaseKey ELSE 0)
        + (IF nameNorm # <<>> /\ Includes(pathNorm, nameNorm) THEN WeightPathName ELSE 0)
        + (IF Includes(base, AzurePipelinesText) THEN WeightAzurePipelines ELSE 0)
        + (IF Includes(pathNorm, PipelineText) THEN WeightPipeline ELSE 0)

\* scoreYamlCandidate with the path signals tested on the directory part alone
ScoreYamlCandidateDirectory(filePath, pipelineKey, pipelineName) ==
    LET base == ToLowerCase(BaseName(filePath, ExtName(filePath)))
        baseNorm == NormalizeForMatch(Str(base))
        pathNorm == NormalizeForMatch(Str(Slice(filePath, 0, LastIndexOf(filePath, "/") + 1)))
        keyNorm == NormalizeForMatch(pipelineKey)
        nameNorm == NormalizeForMatch(pipelineName)
    IN    (IF keyNorm # <<>> /\ Includes(baseNorm, keyNorm) THEN WeightBaseKey ELSE 0)
        + (IF nameNorm # <<>> /\ Includes(baseNorm, nameNorm) THEN WeightBaseName ELSE 0)
        + (IF keyNorm # <<>> /\ Includes(pathNorm, keyNorm) THEN WeightPathKey ELSE 0)
        + (IF nameNorm # <<>> /\ Includes(pathNorm, nameNorm) THEN WeightPathName ELSE 0)
        + (IF Includes(base, AzurePipelinesText) THEN WeightAzurePipelines ELSE 0)
        + (IF Includes(pathNorm, PipelineText) THEN WeightPipeline ELSE 0)

\* scoreYamlCandidate
ScoreYamlCandidate(filePath, pipelineKey, pipelineName) ==
    LET base == ToLowerCase(BaseName(filePath, ExtName(filePath)))
        baseNorm == NormalizeForMatch(Str(base))
        pathNorm == NormalizeForMatch(Str(filePath))
        keyNorm == NormalizeForMatch(pipelineKey)
        nameNorm == NormalizeForMatch(pipelineName)
    IN    (IF keyNorm # <<>> /\ Includes(baseNorm, keyNorm) THEN WeightBaseKey ELSE 0)
        + (IF nameNorm # <<>> /\ Includes(baseNorm, nameNorm) THEN WeightBaseName ELSE 0)
        + (IF keyNorm # <<>> /\ Includes(pathNorm, keyNorm) THEN WeightPathKey ELSE 0)
        + (IF nameNorm # <<>> /\ Includes(pathNorm, nameNorm) THEN WeightPathName ELSE 0)
        + (IF Includes(base, AzurePipelinesText) THEN WeightAzurePipelines ELSE 0)
        + (IF Includes(pathNorm, PipelineText) THEN WeightPipeline ELSE 0)

\* files.map((file) => ({ file, score: scoreYamlCandidate(...) }))
RECURSIVE MapScores(_, _, _)
MapScores(files, pipelineKey, pipelineName) ==
    IF files = <<>> THEN <<>>
    ELSE <<ScoredItem(Head(files),
                      ScoreYamlCandidate(Head(files), pipelineKey, pipelineName))>>
         \o MapScores(Tail(files), pipelineKey, pipelineName)

\* .filter((item) => item.score > 0)
RECURSIVE FilterPositive(_)
FilterPositive(items) ==
    IF items = <<>> THEN <<>>
    ELSE IF Head(items).score > 0 THEN <<Head(items)>> \o FilterPositive(Tail(items))
    ELSE FilterPositive(Tail(items))

\* insertion of one item into a list sorted by falling score, after the
\* items of the same score (Array.prototype.sort is stable)
RECURSIVE InsertByScore(_, _)
InsertByScore(sorted, item) ==
    IF sorted = <<>> THEN <<item>>
    ELSE IF Head(sorted).score >= item.score
    THEN <<Head(sorted)>> \o InsertByScore(Tail(sorted), item)
    ELSE <<item>> \o sorted

\* a sort that puts a later item before the earlier items of its score
RECURSIVE InsertByScoreBeforeEquals(_, _)
InsertByScoreBeforeEquals(sorted, item) ==
    IF sorted = <<>> THEN <<item>>
    ELSE IF Head(sorted).score > item.score
    THEN <<Head(sorted)>> \o InsertByScoreBeforeEquals(Tail(sorted), item)
    ELSE <<item>> \o sorted

RECURSIVE SortByScoreUnstable(_)
SortByScoreUnstable(items) ==
    IF items = <<>> THEN <<>>
    ELSE InsertByScoreBeforeEquals(SortByScoreUnstable(SubSeq(items, 1, Len(items) - 1)),
                                   items[Len(items)])

\* .sort((a, b) => b.score - a.score)
RECURSIVE SortByScore(_)
SortByScore(items) ==
    IF items = <<>> THEN <<>>
    ELSE InsertByScore(SortByScore(SubSeq(items, 1, Len(items) - 1)),
                       items[Len(items)])

\* scored.filter((item) => item.score === topScore)
RECURSIVE FilterScore(_, _)
FilterScore(items, topScore) ==
    IF items = <<>> THEN <<>>
    ELSE IF Head(items).score = topScore
    THEN <<Head(items)>> \o FilterScore(Tail(items), topScore)
    ELSE FilterScore(Tail(items), topScore)

\* const scored = files.map(...).filter(...).sort(...), given the mapped array
ScoredCandidates(mappedFiles) == SortByScore(FilterPositive(mappedFiles))

\* const top = scored.filter(...)
TopCandidates(scored) == FilterScore(scored, scored[1].score)

\* top.map((item) => ({ value: item.file, label: item.file }))
RECURSIVE FilesOf(_)
FilesOf(items) ==
    IF items = <<>> THEN <<>> ELSE <<Head(items).file>> \o FilesOf(Tail(items))

\* what selectLocalYamlFile does up to its prompt: "null", or "file" with
\* the file returned, or "prompt" with the options of the select
LocatorStep(kind, file, choices) == [kind |-> kind, file |-> file, choices |-> choices]

SelectAmong(scored, interactive) ==
    LET top == TopCandidates(scored)
    IN  IF Len(scored) = 0 THEN LocatorStep("null", <<>>, <<>>)
        ELSE IF Len(scored) = 1 THEN LocatorStep("file", scored[1].file, <<>>)
        ELSE IF Len(top) = 1 THEN LocatorStep("file", top[1].file, <<>>)
        ELSE IF ~interactive THEN LocatorStep("file", top[1].file, <<>>)
        ELSE LocatorStep("prompt", <<>>, FilesOf(top))

SelectLocalYamlFile(args, mappedFiles) ==
    IF Len(args.files) = 0 THEN LocatorStep("null", <<>>, <<>>)
    ELSE SelectAmong(ScoredCandidates(mappedFiles), args.interactive)

(***************************************************************************)
(* Pipeline selection resolver (src/src/cli.ts, normalizePipelineEntry,    *)
(* listConfigPipelines and resolvePipelineSelection).                      *)
(***************************************************************************)
\* a normalized PipelineEntry: id is a number, the rest is as configured
PipelineEntry(id, name, branch, path) ==
    [id |-> id, name |-> name, branch |-> branch, path |-> path]

\* a PipelineSelection
PipelineSelection(id, name, branch, path, key) ==
    [id |-> id, name |-> name, branch |-> branch, path |-> path, key |-> key]

\* { key, entry } of listConfigPipelines
CatalogItem(key, entry) == [key |-> key, entry |-> entry]

NoSelection == PipelineSelection(NaN, Undefined, Undefined, Undefined, Undefined)

UnknownPipelineMessage == "Unknown pipeline"
NoPipelinesMessage == "No pipelines found"
InvalidSelectionMessage == "Invalid pipeline selection"

\* normalizePipelineEntry: <<entry>>, or <<>> for null
NormalizePipelineEntry(entry) ==
    IF ~Truthy(entry) THEN <<>>
    ELSE IF IsNaN(ToNumber(GetProp(entry, TextId))) THEN <<>>
    ELSE <<PipelineEntry(ToNumber(GetProp(entry, TextId)), GetProp(entry, TextName),
                         GetProp(entry, TextBranch), GetProp(entry, TextPath))>>

\* the loop of listConfigPipelines over Object.entries(pipelines)
RECURSIVE ListEntries(_)
ListEntries(props) ==
    IF props = <<>> THEN <<>>
    ELSE IF NormalizePipelineEntry(Head(props)[2]) = <<>>
    THEN ListEntries(Tail(props))
    ELSE <<CatalogItem(Head(props)[1], NormalizePipelineEntry(Head(props)[2])[1])>>
         \o ListEntries(Tail(props))

\* listConfigPipelines
ListConfigPipelines(pipelines) ==
    IF ~Truthy(pipelines) THEN <<>> ELSE ListEntries(pipelines.val)

\* entries.find((e) => e.entry.id === asNumber): <<item>> for the first
\* match, or <<>>
RECURSIVE FindById(_, _)
FindById(items, asNumber) ==
    IF items = <<>> THEN <<>>
    ELSE IF Head(items).entry.id = asNumber THEN <<Head(items)>>
    ELSE FindById(Tail(items), asNumber)

\* entries.find((e) => e.key === text)
RECURSIVE FindByKey(_, _)
FindByKey(items, text) ==
    IF items = <<>> THEN <<>>
    ELSE IF Head(items).key = text THEN <<Head(items)>>
    ELSE FindByKey(Tail(items), text)

\* the selection made of a catalog item
SelectionOf(item) ==
    PipelineSelection(item.entry.id, Coalesce(item.entry.name, Str(item.key)),
                      item.entry.branch, item.entry.path, Str(item.key))

\* the selection returned for a numeric identifier: match?. of every field
SelectionById(asNumber, match) ==
    IF match = <<>>
    THEN PipelineSelection(asNumber, Undefined, Undefined, Undefined, Undefined)
    ELSE PipelineSelection(asNumber, Coalesce(match[1].entry.name, Str(match[1].key)),
                           match[1].entry.branch, match[1].entry.path,
                           Str(match[1].key))

\* what resolvePipelineSelection does up to its prompt: "returned" with the
\* selection, "threw" with the message, or "prompt" with the entries offered
ResolverStep(kind, chosen, message, candidates) ==
    [kind |-> kind, chosen |-> chosen, message |-> message, candidates |-> candidates]

\* a resolver that takes an unknown key for a pipeline of its own
ResolveIdentifierLenient(items, pipelineArg) ==
    LET asNumber == ToNumber(pipelineArg)
    IN  IF ~IsNaN(asNumber)
        THEN ResolverStep("returned", SelectionById(asNumber, FindById(items, asNumber)),
                          "none", <<>>)
        ELSE IF FindByKey(items, pipelineArg.val) # <<>>
        THEN ResolverStep("returned", SelectionOf(FindByKey(items, pipelineArg.val)[1]),
                          "none", <<>>)
        ELSE ResolverStep("returned",
                          PipelineSelection(IntNum(0), Undefined, Undefined, Undefined,
                                            pipelineArg),
                          "none", <<>>)

\* if (pipelineArg) { ... } of resolvePipelineSelection
ResolveIdentifier(items, pipelineArg) ==
    LET asNumber == ToNumber(pipelineArg)
    IN  IF ~IsNaN(asNumber)
        THEN ResolverStep("returned", SelectionById(asNumber, FindById(items, asNumber)),
                          "none", <<>>)
        ELSE IF FindByKey(items, pipelineArg.val) # <<>>
        THEN ResolverStep("returned", SelectionOf(FindByKey(items, pipelineArg.val)[1]),
                          "none", <<>>)
        ELSE ResolverStep("threw", NoSelection, UnknownPipelineMessage, <<>>)

ResolvePipelineSelection(pipelines, pipelineArg) ==
    LET items == ListConfigPipelines(pipelines)
    IN  IF Truthy(pipelineArg) THEN ResolveIdentifier(items, pipelineArg)
        ELSE IF Len(items) = 0
        THEN ResolverStep("threw", NoSelection, NoPipelinesMessage, <<>>)
        ELSE ResolverStep("prompt", NoSelection, "none", items)

(***************************************************************************)
(* Parameter spec extractor (src/src/cli.ts, inferParamType,               *)
(* normalizeParamSpec and extractParamsFromYaml).  A non-empty YAML text is *)
(* modelled by the document YAML.parse makes of it, or by Unparsable when  *)
(* YAML.parse throws.                                                      *)
(***************************************************************************)
TextString == <<"s", "t", "r", "i", "n", "g">>
TextNumber == <<"n", "u", "m", "b", "e", "r">>
TextBoolean == <<"b", "o", "o", "l", "e", "a", "n">>
TextArray == <<"a", "r", "r", "a", "y">>
TextObject == <<"o", "b", "j", "e", "c", "t">>

\* a PipelineParamSpec; an absent default or values is undefined
ParamSpec(name, type, default, values) ==
    [name |-> name, type |-> type, default |-> default, values |-> values]

\* a non-empty text whose document is doc, a non-empty text YAML.parse
\* rejects, and the empty text
YamlText(doc) == JsValue("yaml", doc)
Unparsable == JsValue("unparsable", 0)
EmptyText == Str(<<>>)

\* YAML.parse(yamlText) for a text it accepts: the empty text is null
YamlParse(yamlText) == IF yamlText.kind = "yaml" THEN yamlText.val ELSE Null

\* typeof v
TypeOf(v) ==
    CASE v.kind = "string" -> TextString
      [] v.kind = "number" -> TextNumber
      [] v.kind = "boolean" -> TextBoolean
      [] OTHER -> TextObject

\* inferParamType that takes an array for an object
InferParamTypeNoArray(value) ==
    IF value.kind \in {"null", "undefined"} THEN TextString
    ELSE TypeOf(value)

\* inferParamType
InferParamType(value) ==
    IF value.kind \in {"null", "undefined"} THEN TextString
    ELSE IF value.kind = "array" THEN TextArray
    ELSE TypeOf(value)

\* normalizeParamSpec: <<spec>>, or <<>> for null
NormalizeParamSpec(param) ==
    IF param.kind = "string"
    THEN <<ParamSpec(param.val, Str(TextString), Undefined, Undefined)>>
    ELSE IF param.kind \in {"object", "array"}
            /\ GetProp(param, TextName).kind = "string"
    THEN LET type == IF GetProp(param, TextType).kind = "string"
                     THEN GetProp(param, TextType)
                     ELSE Str(InferParamType(GetProp(param, TextDefault)))
             values == IF GetProp(param, TextValues).kind = "array"
                       THEN GetProp(param, TextValues)
                       ELSE Undefined
         IN  <<ParamSpec(GetProp(param, TextName).val, type,
                         GetProp(param, TextDefault), values)>>
    ELSE <<>>

\* params.map((p) => normalizeParamSpec(p)).filter(Boolean)
RECURSIVE NormalizeAll(_)
NormalizeAll(params) ==
    IF params = <<>> THEN <<>>
    ELSE NormalizeParamSpec(Head(params)) \o NormalizeAll(Tail(params))

\* Object.entries(params).map(([name, value]) => ({ name, type, default }))
RECURSIVE SpecsOfEntries(_)
SpecsOfEntries(props) ==
    IF props = <<>> THEN <<>>
    ELSE <<ParamSpec(Head(props)[1], Str(InferParamType(Head(props)[2])),
                     Head(props)[2], Undefined)>>
         \o SpecsOfEntries(Tail(props))

\* extractParamsFromYaml, for a text YAML.parse accepts
ExtractParamsFromYaml(yamlText) ==
    LET params == GetProp(YamlParse(yamlText), TextParameters)
    IN  IF ~Truthy(params) THEN <<>>
        ELSE IF params.kind = "array" THEN NormalizeAll(params.val)
        ELSE IF params.kind = "object" THEN SpecsOfEntries(params.val)
        ELSE <<>>

(***************************************************************************)
(* Parameter sources of the build command (src/src/cli.ts, parsePollMs,    *)
(* parseParamValue, parseParams, parseUnknownParamFlags, defaultsFromSpecs *)
(* and promptForParameters).  A parameter set is an object: its            *)
(* <<key, value>> pairs in insertion order.                                *)
(***************************************************************************)
HasProp(props, prop) == \E i \in 1 .. Len(props) : props[i][1] = prop

\* the value of a property the object has
PropOf(props, prop) == props[CHOOSE i \in 1 .. Len(props) : props[i][1] = prop][2]

\* params[prop] = value
SetProp(props, prop, value) ==
    IF HasProp(props, prop)
    THEN LET i == CHOOSE j \in 1 .. Len(props) : props[j][1] = prop
         IN  SubSeq(props, 1, i - 1) \o <<<<prop, value>>>>
             \o SubSeq(props, i + 1, Len(props))
    ELSE Append(props, <<prop, value>>)

\* { ...target, ...source }
RECURSIVE Spread(_, _)
Spread(target, source) ==
    IF source = <<>> THEN target
    ELSE Spread(SetProp(target, Head(source)[1], Head(source)[2]), Tail(source))

\* a merge in which the overrides are spread last
MergeParamsOverridesLast(base, overrides, flags) ==
    Spread(Spread(Spread(<<>>, base), flags), overrides)

\* { ...parameters, ...overrideParams, ...flagParams }
MergeParams(base, overrides, flags) ==
    Spread(Spread(Spread(<<>>, base), overrides), flags)

DefaultPollMs == 7000

\* parsed <= 0
IsPositive(n) == ~n.nan /\ ~n.neg /\ (n.whole > 0 \/ n.frac # <<>>)

\* a parsePollMs that lets zero through
ParsePollMsKeepsZero(value) ==
    IF value.kind \in {"undefined", "null"} \/ value = Str(<<>>) THEN IntNum(DefaultPollMs)
    ELSE LET parsed == IF value.kind = "number" THEN value.val ELSE ToNumber(value)
         IN  IF IsNaN(parsed) \/ parsed.neg THEN IntNum(DefaultPollMs)
             ELSE parsed

\* parsePollMs
ParsePollMs(value) ==
    IF value.kind \in {"undefined", "null"} \/ value = Str(<<>>) THEN IntNum(DefaultPollMs)
    ELSE LET parsed == IF value.kind = "number" THEN value.val ELSE ToNumber(value)
         IN  IF IsNaN(parsed) \/ ~IsPositive(parsed) THEN IntNum(DefaultPollMs)
             ELSE parsed

TextTrue == <<"t", "r", "u", "e">>
TextFalse == <<"f", "a", "l", "s", "e">>
TextNull == <<"n", "u", "l", "l">>

\* parseParamValue
ParseParamValue(raw) ==
    LET trimmed == Trim(raw)
        num == StringToNumber(trimmed)
    IN  IF trimmed = TextTrue THEN Bool(TRUE)
        ELSE IF trimmed = TextFalse THEN Bool(FALSE)
        ELSE IF ~IsNaN(num) /\ trimmed # <<>> THEN Num(num)
        ELSE Str(trimmed)

\* a parseParams that splits each entry at its last '='
ParseParamEntryLastEq(params, entry) ==
    LET idx == LastIndexOf(entry, "=")
        key == Trim(Slice(entry, 0, idx))
        value == Slice(entry, idx + 1, Len(entry))
    IN  IF idx = -1 THEN params
        ELSE IF key = <<>> THEN params
        ELSE SetProp(params, key, ParseParamValue(value))

\* one pass of the loop of parseParams
ParseParamEntry(params, entry) ==
    LET idx == IndexOf(entry, "=")
        key == Trim(Slice(entry, 0, idx))
        value == Slice(entry, idx + 1, Len(entry))
    IN  IF idx = -1 THEN params
        ELSE IF key = <<>> THEN params
        ELSE SetProp(params, key, ParseParamValue(value))

\* the loop of parseParams, from the entries left
RECURSIVE ParseParamsFrom(_, _)
ParseParamsFrom(params, paramEntries) ==
    IF paramEntries = <<>> THEN params
    ELSE ParseParamsFrom(ParseParamEntry(params, Head(paramEntries)), Tail(paramEntries))

\* parseParams
ParseParams(paramEntries) == ParseParamsFrom(<<>>, paramEntries)

\* a test that takes no argument starting with '-' for a value
IsFlagValueNoNegative(args, i) ==
    /\ i + 1 <= Len(args)
    /\ args[i + 1] # <<>>
    /\ ~StartsWith(args[i + 1], <<"-">>)

\* next && (!next.startsWith("-") || /^-\d/.test(next))
IsFlagValue(args, i) ==
    /\ i + 1 <= Len(args)
    /\ args[i + 1] # <<>>
    /\ \/ ~StartsWith(args[i + 1], <<"-">>)
       \/ Len(args[i + 1]) >= 2 /\ IsDigit(args[i + 1][2])

\* the loop of parseUnknownParamFlags, from the argument at place i (from 1)
RECURSIVE ParseFlagsFrom(_, _, _)
ParseFlagsFrom(params, args, i) ==
    IF i > Len(args) THEN params
    ELSE LET arg == args[i]
             eq == IndexOf(arg, "=")
         IN  IF arg = <<>> \/ arg = <<"-", "-">> THEN ParseFlagsFrom(params, args, i + 1)
             ELSE IF StartsWith(arg, <<"-", "-", "n", "o", "-">>)
             THEN ParseFlagsFrom(IF Slice(arg, 5, Len(arg)) # <<>>
                                 THEN SetProp(params, Slice(arg, 5, Len(arg)), Bool(FALSE))
                                 ELSE params,
                                 args, i + 1)
             ELSE IF ~StartsWith(arg, <<"-", "-">>) THEN ParseFlagsFrom(params, args, i + 1)
             ELSE IF eq # -1
             THEN ParseFlagsFrom(IF Slice(arg, 2, eq) # <<>>
                                 THEN SetProp(params, Slice(arg, 2, eq),
                                              ParseParamValue(Slice(arg, eq + 1, Len(arg))))
                                 ELSE params,
                                 args, i + 1)
             ELSE IF IsFlagValue(args, i)
             THEN ParseFlagsFrom(SetProp(params, Slice(arg, 2, Len(arg)),
                                         ParseParamValue(args[i + 1])),
                                 args, i + 2)
             ELSE ParseFlagsFrom(SetProp(params, Slice(arg, 2, Len(arg)), Bool(TRUE)),
                                 args, i + 1)

\* parseUnknownParamFlags
ParseUnknownParamFlags(args) == ParseFlagsFrom(<<>>, args, 1)

\* defaultsFromSpecs
RECURSIVE DefaultsFrom(_, _)
DefaultsFrom(params, paramSpecs) ==
    IF paramSpecs = <<>> THEN params
    ELSE DefaultsFrom(IF Head(paramSpecs).default # Undefined
                      THEN SetProp(params, Head(paramSpecs).name, Head(paramSpecs).default)
                      ELSE params,
                      Tail(paramSpecs))

DefaultsFromSpecs(paramSpecs) == DefaultsFrom(<<>>, paramSpecs)

\* a JSON number without exponent: -?(0|[1-9][0-9]*)(\.[0-9]+)?
IsJsonNumber(s) ==
    LET body == IF s # <<>> /\ Head(s) = "-" THEN Tail(s) ELSE s
        dot == IndexOf(body, ".")
        ip == IF dot = -1 THEN body ELSE Slice(body, 0, dot)
        fp == IF dot = -1 THEN <<>> ELSE Slice(body, dot + 1, Len(body))
    IN  /\ ip # <<>> /\ AllDigits(ip) /\ (Len(ip) = 1 \/ Head(ip) # "0")
        /\ AllDigits(fp) /\ (dot = -1 \/ fp # <<>>)

\* JSON.parse(text): <<value>>, or <<>> when it throws.  The texts of this
\* model hold no quoted string and no array or object with members.
JsonParse(text) ==
    LET s == Trim(text)
    IN  IF s = TextTrue THEN <<Bool(TRUE)>>
        ELSE IF s = TextFalse THEN <<Bool(FALSE)>>
        ELSE IF s = TextNull THEN <<Null>>
        ELSE IF s = <<"[", "]">> THEN <<Arr(<<>>)>>
        ELSE IF s = <<"{", "}">> THEN <<Obj(<<>>)>>
        ELSE IF IsJsonNumber(s) THEN <<Num(StringToNumber(s))>>
        ELSE <<>>

\* the prompt promptForParameters shows for a param: "select", "confirm" or
\* "text"
PromptKind(param) ==
    IF param.values.kind = "array" /\ Len(param.values.val) > 0 THEN "select"
    ELSE IF ToLowerCase(param.type.val) = TextBoolean THEN "confirm"
    ELSE "text"

\* a === b for values read from a YAML text without aliases: primitives
\* are compared by value, two arrays or objects are never the same object
StrictEquals(a, b) ==
    /\ a.kind = b.kind
    /\ a.kind \notin {"array", "object"}
    /\ a.kind = "number" => ~IsNaN(a.val)
    /\ a = b

\* the digits of a natural number
RECURSIVE DigitsOf(_)
DigitsOf(n) ==
    IF n < 10 THEN <<DigitChars[n + 1]>>
    ELSE DigitsOf(n \div 10) \o <<DigitChars[(n % 10) + 1]>>

\* String(n) of a number written without exponent
NumberText(n) ==
    IF IsNaN(n) THEN <<"N", "a", "N">>
    ELSE (IF n.neg THEN <<"-">> ELSE <<>>) \o DigitsOf(n.whole)
         \o (IF n.frac = <<>> THEN <<>> ELSE <<".">> \o n.frac)

\* JSON.stringify(value) for a value that is not undefined; the texts of
\* this model hold no character that JSON escapes
RECURSIVE JsonStringify(_)
RECURSIVE JsonMembers(_, _)
JsonStringify(value) ==
    CASE value.kind = "boolean" -> IF value.val THEN TextTrue ELSE TextFalse
      [] value.kind = "number" -> IF IsNaN(value.val) THEN TextNull
                                  ELSE NumberText(value.val)
      [] value.kind = "string" -> <<"\"">> \o value.val \o <<"\"">>
      [] value.kind = "array" -> <<"[">> \o JsonMembers(value.val, FALSE) \o <<"]">>
      [] value.kind = "object" -> <<"{">> \o JsonMembers(value.val, TRUE) \o <<"}">>
      [] OTHER -> TextNull

\* the members of an array, or of an object (keyed), separated by commas
JsonMembers(items, keyed) ==
    IF items = <<>> THEN <<>>
    ELSE (IF keyed
          THEN <<"\"">> \o Head(items)[1] \o <<"\"", ":">> \o JsonStringify(Head(items)[2])
          ELSE JsonStringify(Head(items)))
         \o (IF Len(items) > 1 THEN <<",">> ELSE <<>>)
         \o JsonMembers(Tail(items), keyed)

\* stringifyDefault
StringifyDefault(value) ==
    IF value.kind = "undefined" THEN Undefined
    ELSE IF value.kind = "string" THEN value
    ELSE Str(JsonStringify(value))

\* a select that always preselects the first of the values
InitialValueFirst(param) ==
    CASE PromptKind(param) = "select" -> param.values.val[1]
      [] PromptKind(param) = "confirm" ->
            IF param.default.kind = "boolean" THEN param.default ELSE Bool(FALSE)
      [] OTHER -> StringifyDefault(param.default)

\* the initialValue of the prompt promptForParameters shows for a param
InitialValue(param) ==
    CASE PromptKind(param) = "select" ->
            IF /\ param.default # Undefined
               /\ \E i \in 1 .. Len(param.values.val) :
                     StrictEquals(param.values.val[i], param.default)
            THEN param.default
            ELSE param.values.val[1]
      [] PromptKind(param) = "confirm" ->
            IF param.default.kind = "boolean" THEN param.default ELSE Bool(FALSE)
      [] OTHER -> StringifyDefault(param.default)

\* what the text prompt of a param stores for a non-blank input
TextInputValue(param, input) ==
    LET type == ToLowerCase(param.type.val)
    IN  IF type = TextNumber
        THEN IF IsNaN(StringToNumber(input)) THEN Str(input)
             ELSE Num(StringToNumber(input))
        ELSE IF type \in {TextObject, TextArray}
        THEN IF JsonParse(input) = <<>> THEN Str(input) ELSE JsonParse(input)[1]
        ELSE Str(input)

\* one pass of the loop of promptForParameters, the prompt answered with
\* picked
PromptResult(answers, param, picked) ==
    CASE PromptKind(param) = "select" -> SetProp(answers, param.name, picked)
      [] PromptKind(param) = "confirm" -> SetProp(answers, param.name, Bool(Truthy(picked)))
      [] OTHER ->
            IF Trim(picked.val) = <<>>
            THEN IF param.default # Undefined
                 THEN SetProp(answers, param.name, param.default)
                 ELSE answers
            ELSE SetProp(answers, param.name, TextInputValue(param, picked.val))

(***************************************************************************)
(* The pipeline service's getRun (src/unnamed/part_001, getRun).           *)
(***************************************************************************)
\* a RunInfo; serial tells the response objects of successive queries apart
RunInfo(state, result, serial) ==
    [state |-> state, result |-> result, serial |-> serial]

\* the options of one wait
WaitOptions(pollMs, timeoutMs, onUpdate) ==
    [pollMs |-> pollMs, timeoutMs |-> timeoutMs, onUpdate |-> onUpdate]

NoRun == RunInfo("none", "none", 0)

\* the state/result pairs the service reports
ServiceRuns ==
    { [state |-> "queued",     result |-> "none"],
      [state |-> "inProgress", result |-> "none"],
      [state |-> "completed",  result |-> "succeeded"],
      [state |-> "completed",  result |-> "failed"],
      [state |-> "completed",  result |-> "canceled"] }

TimeoutMessage == "Timed out waiting for pipeline run to complete"
ApiErrorMessage == "AzDO API error"

\* new Error(message), and the promise that has not settled
Thrown(message) == [message |-> message]
Pending == Thrown("pending")

\* how long one getRun may take: nothing, a little, or longer than the timeout
Latencies(timeoutMs) == (0 .. MaxLatency) \cup {timeoutMs + 1}

\* the clock readings at which a command starts
StartTimes == {0, 7}

\* the options the monitor is exercised with when it is run on its own
PollChoices == {1, 3, 10}
TimeoutChoices == {0, 2, 5}

(***************************************************************************)
(* waitForCompletion                                                       *)
(***************************************************************************)
MonitorIdle ==
    /\ wpc = "idle"
    /\ now \in StartTimes
    /\ started = 0
    /\ options = WaitOptions(0, 0, FALSE)
    /\ run = NoRun
    /\ outcome = Pending
    /\ queries = 0
    /\ sleeps = 0
    /\ observed = <<>>
    /\ firstState = "none"
    /\ completedAt = 0
    /\ thrownAt = 0

\* the call: const started = Date.now(); the loop is entered
WaitForCompletion(opts) ==
    /\ wpc = "idle"
    /\ wpc' = "query"
    /\ started' = now
    /\ options' = opts
    /\ UNCHANGED <<now, run, outcome, queries, sleeps, observed, firstState,
                   completedAt, thrownAt>>

\* the timeout check placed before the completion check
AfterQueryChecksTimeoutFirst(r, t) ==
    IF t - started > options.timeoutMs THEN "timedout"
    ELSE IF r.state = "completed" THEN "returned"
    ELSE "sleep"

\* a loop that stops at the first response that is no longer queued
AfterQueryStopsWhenStarted(r, t) ==
    IF r.state # "queued" THEN "returned"
    ELSE IF t - started > options.timeoutMs THEN "timedout"
    ELSE "sleep"

\* the timeout comparison made inclusive
AfterQueryInclusive(r, t) ==
    IF r.state = "completed" THEN "returned"
    ELSE IF t - started >= options.timeoutMs THEN "timedout"
    ELSE "sleep"

\* the two checks that follow a response, in the order of the code:
\* if (run.state === "completed") return run;
\* if (Date.now() - started > options.timeoutMs) throw ...
AfterQuery(r, t) ==
    IF r.state = "completed" THEN "returned"
    ELSE IF t - started > options.timeoutMs THEN "timedout"
    ELSE "sleep"

\* a loop that calls onUpdate after the two checks, before the sleep
QueryReturnsWithObserverLast(resp, lat) ==
    LET r == RunInfo(resp.state, resp.result, queries + 1)
        t == now + lat
        next == AfterQuery(r, t)
    IN  /\ wpc = "query"
        /\ queries < MaxQueries
        /\ now' = t
        /\ run' = r
        /\ queries' = queries + 1
        /\ observed' = IF options.onUpdate /\ next = "sleep"
                       THEN Append(observed, r.serial) ELSE observed
        /\ firstState' = IF queries = 0 THEN r.state ELSE firstState
        /\ completedAt' = IF completedAt = 0 /\ r.state = "completed"
                          THEN r.serial ELSE completedAt
        /\ wpc' = next
        /\ outcome' = CASE next = "returned" -> r
                        [] next = "timedout" -> Thrown(TimeoutMessage)
                        [] OTHER -> outcome
        /\ UNCHANGED <<started, options, sleeps, thrownAt>>
        /\ UNCHANGED outsideMonitor

\* one loop iteration whose getRun resolves: onUpdate, completion check,
\* timeout check
QueryReturnsWith(resp, lat) ==
    LET r == RunInfo(resp.state, resp.result, queries + 1)
        t == now + lat
        next == AfterQuery(r, t)
    IN  /\ wpc = "query"
        /\ queries < MaxQueries
        /\ now' = t
        /\ run' = r
        /\ queries' = queries + 1
        /\ observed' = IF options.onUpdate THEN Append(observed, r.serial) ELSE observed
        /\ firstState' = IF queries = 0 THEN r.state ELSE firstState
        /\ completedAt' = IF completedAt = 0 /\ r.state = "completed"
                          THEN r.serial ELSE completedAt
        /\ wpc' = next
        /\ outcome' = CASE next = "returned" -> r
                        [] next = "timedout" -> Thrown(TimeoutMessage)
                        [] OTHER -> outcome
        /\ UNCHANGED <<started, options, sleeps, thrownAt>>
        /\ UNCHANGED outsideMonitor

QueryReturns ==
    \E resp \in ServiceRuns, lat \in Latencies(options.timeoutMs) :
        QueryReturnsWith(resp, lat)

\* a loop whose catch swallows the failed query and polls again
QueryThrowsCaught ==
    \E lat \in Latencies(options.timeoutMs) :
        /\ wpc = "query"
        /\ queries < MaxQueries
        /\ now' = now + lat
        /\ queries' = queries + 1
        /\ thrownAt' = IF thrownAt = 0 THEN queries + 1 ELSE thrownAt
        /\ wpc' = "sleep"
        /\ UNCHANGED <<started, options, run, outcome, sleeps, observed,
                       firstState, completedAt>>
        /\ UNCHANGED outsideMonitor

\* one loop iteration whose getRun rejects: nothing catches it
QueryThrows ==
    \E lat \in Latencies(options.timeoutMs) :
        /\ wpc = "query"
        /\ queries < MaxQueries
        /\ now' = now + lat
        /\ queries' = queries + 1
        /\ thrownAt' = queries + 1
        /\ wpc' = "failed"
        /\ outcome' = Thrown(ApiErrorMessage)
        /\ UNCHANGED <<started, options, run, sleeps, observed, firstState,
                       completedAt>>
        /\ UNCHANGED outsideMonitor

\* await sleep(options.pollMs): setTimeout fires no earlier than pollMs
SleepDone ==
    \E over \in 0 .. MaxOvershoot :
        /\ wpc = "sleep"
        /\ now' = now + options.pollMs + over
        /\ sleeps' = sleeps + 1
        /\ wpc' = "query"
        /\ UNCHANGED <<started, options, run, outcome, queries, observed,
                       firstState, completedAt, thrownAt>>
        /\ UNCHANGED outsideMonitor

(***************************************************************************)
(* The texts the locator is exercised with.                                *)
(***************************************************************************)
\* "ci/android-staging.yml"
PathAndroidStaging ==
    <<"c", "i", "/", "a", "n", "d", "r", "o", "i", "d", "-", "s", "t", "a",
      "g", "i", "n", "g", ".", "y", "m", "l">>

\* "ci/ios.yml"
PathIos ==
    <<"c", "i", "/", "i", "o", "s", ".", "y", "m", "l">>

\* "azure-pipelines.yml"
PathAzurePipelines ==
    <<"a", "z", "u", "r", "e", "-", "p", "i", "p", "e", "l", "i", "n", "e",
      "s", ".", "y", "m", "l">>

\* "android/staging.yaml"
PathAndroidDir ==
    <<"a", "n", "d", "r", "o", "i", "d", "/", "s", "t", "a", "g", "i", "n",
      "g", ".", "y", "a", "m", "l">>

\* "ci/Android_Staging.YML"
PathAndroidUpper ==
    <<"c", "i", "/", "A", "n", "d", "r", "o", "i", "d", "_", "S", "t", "a",
      "g", "i", "n", "g", ".", "Y", "M", "L">>

\* "pipelines/ios.yml"
PathPipelinesIos ==
    <<"p", "i", "p", "e", "l", "i", "n", "e", "s", "/", "i", "o", "s", ".",
      "y", "m", "l">>

\* "ci/azure-pipelines.android-staging.yml"
PathAzureAndroid ==
    <<"c", "i", "/", "a", "z", "u", "r", "e", "-", "p", "i", "p", "e", "l",
      "i", "n", "e", "s", ".", "a", "n", "d", "r", "o", "i", "d", "-", "s",
      "t", "a", "g", "i", "n", "g", ".", "y", "m", "l">>

\* "android_staging"
KeyAndroidStaging ==
    <<"a", "n", "d", "r", "o", "i", "d", "_", "s", "t", "a", "g", "i", "n",
      "g">>

\* "ios"
KeyIos ==
    <<"i", "o", "s">>

\* "Android Staging"
NameAndroidStaging ==
    <<"A", "n", "d", "r", "o", "i", "d", " ", "S", "t", "a", "g", "i", "n",
      "g">>

PathPool == {PathAndroidStaging, PathIos, PathAzurePipelines, PathAndroidDir,
             PathAndroidUpper, PathPipelinesIos, PathAzureAndroid}

\* the lists findYamlFiles may return: up to MaxFiles distinct paths
FileLists ==
    {fl \in UNION {[1 .. k -> PathPool] : k \in 0 .. MaxFiles} :
        \A i, j \in 1 .. Len(fl) : i # j => fl[i] # fl[j]}

\* the <<key, name>> pairs of the pipelines looked for: absent, empty and
\* present keys and names
KeyNameChoices ==
    { <<Undefined, Undefined>>,
      <<Str(<<>>), Str(<<>>)>>,
      <<Str(KeyAndroidStaging), Undefined>>,
      <<Undefined, Str(NameAndroidStaging)>>,
      <<Str(KeyAndroidStaging), Str(NameAndroidStaging)>>,
      <<Str(KeyAndroidStaging), Str(<<>>)>>,
      <<Str(KeyIos), Undefined>> }

NoLocatorArgs == LocatorArgs(<<>>, Undefined, Undefined, FALSE)

LocatorIdle ==
    /\ lpc = "idle"
    /\ locArgs = NoLocatorArgs
    /\ mapped = <<>>
    /\ offered = <<>>
    /\ located = Null

\* the call of selectLocalYamlFile, up to its return or its prompt
SelectLocalYamlFileCall(args) ==
    /\ lpc = "idle"
    /\ \E mappedFiles \in {MapScores(args.files, args.pipelineKey, args.pipelineName)} :
       \E step \in {SelectLocalYamlFile(args, mappedFiles)} :
        /\ locArgs' = args
        /\ mapped' = mappedFiles
        /\ offered' = step.choices
        /\ located' = IF step.kind = "file" THEN Str(step.file) ELSE Null
        /\ lpc' = IF step.kind = "prompt" THEN "prompt" ELSE "done"

\* the user picks one of the options of the select
SelectAnswered ==
    /\ lpc = "prompt"
    /\ \E i \in 1 .. Len(offered) :
        /\ located' = Str(offered[i])
        /\ lpc' = "done"
        /\ UNCHANGED <<locArgs, mapped, offered>>
        /\ UNCHANGED outsideLocator

\* the user cancels the select: exitIfCancel ends the process
SelectCancelled ==
    /\ lpc = "prompt"
    /\ lpc' = "exited"
    /\ UNCHANGED <<locArgs, mapped, offered, located>>
    /\ UNCHANGED outsideLocator

(***************************************************************************)
(* The catalogs and identifiers the resolver is exercised with.            *)
(***************************************************************************)
\* "broken", "half", "noid", "empty", "dev"
KeyBroken == <<"b", "r", "o", "k", "e", "n">>
KeyHalf == <<"h", "a", "l", "f">>
KeyNoId == <<"n", "o", "i", "d">>
KeyEmpty == <<"e", "m", "p", "t", "y">>
BranchDev == <<"d", "e", "v">>

\* the number 1.5
OneAndAHalf == JsNumber(FALSE, FALSE, 1, <<"5">>)

\* the <<key, entry>> pairs a config file may hold: a full entry, an id
\* written as a string, an id that is no number, a fractional id, no id,
\* and null
EntryAndroidStaging ==
    <<KeyAndroidStaging,
      Obj(<< <<TextId, Num(IntNum(12))>>, <<TextName, Str(NameAndroidStaging)>>,
             <<TextPath, Str(PathAndroidStaging)>> >>)>>

EntryIos == <<KeyIos, Obj(<< <<TextId, Str(<<"7">>)>> >>)>>

CatalogPool ==
    { EntryAndroidStaging, EntryIos,
      <<KeyBroken, Obj(<< <<TextId, Str(<<"a", "b", "c">>)>> >>)>>,
      <<KeyHalf, Obj(<< <<TextId, Num(OneAndAHalf)>>, <<TextBranch, Str(BranchDev)>> >>)>>,
      <<KeyNoId, Obj(<< <<TextName, Str(NameAndroidStaging)>> >>)>>,
      <<KeyEmpty, Null>> }

\* config.pipelines: absent, or up to MaxEntries pairs with distinct keys
Catalogs ==
    {Undefined} \cup
    {Obj(props) : props \in
        {pl \in UNION {[1 .. k -> CatalogPool] : k \in 0 .. MaxEntries} :
            \A i, j \in 1 .. Len(pl) : i # j => pl[i][1] # pl[j][1]}}

\* the identifiers: absent, empty, blank, numeric (integer, padded,
\* fractional, unknown), keys (exact, in another case, of a dropped entry,
\* unknown)
PipelineArgs ==
    { Undefined, Str(<<>>), Str(<<" ">>),
      Str(<<"1", "2">>), Str(<<" ", "1", "2", " ">>), Str(<<"7">>),
      Str(<<"1", ".", "5">>), Str(<<"9", "9">>),
      Str(KeyAndroidStaging), Str(KeyIos), Str(KeyHalf), Str(KeyBroken),
      Str(NameAndroidStaging), Str(<<"n", "o", "p", "e">>) }

ResolverIdle ==
    /\ rpc = "idle"
    /\ configPipelines = Undefined
    /\ optionsPipeline = Undefined
    /\ entries = <<>>
    /\ selection = NoSelection
    /\ resolveError = "none"

\* the call of resolvePipelineSelection, up to its return, its throw or
\* its prompt
ResolvePipelineSelectionCall(catalog, identifier) ==
    /\ rpc = "idle"
    /\ \E step \in {ResolvePipelineSelection(catalog, identifier)} :
        /\ configPipelines' = catalog
        /\ optionsPipeline' = identifier
        /\ entries' = ListConfigPipelines(catalog)
        /\ selection' = step.chosen
        /\ resolveError' = step.message
        /\ rpc' = step.kind

\* the user picks one of the options of the select; the entry is looked
\* up by the key picked
PipelinePicked ==
    /\ rpc = "prompt"
    /\ \E i \in 1 .. Len(entries) :
       \E picked \in {FindByKey(entries, entries[i].key)} :
        /\ selection' = IF picked = <<>> THEN selection ELSE SelectionOf(picked[1])
        /\ resolveError' = IF picked = <<>> THEN InvalidSelectionMessage ELSE resolveError
        /\ rpc' = IF picked = <<>> THEN "threw" ELSE "returned"
        /\ UNCHANGED <<configPipelines, optionsPipeline, entries>>
        /\ UNCHANGED outsideResolver

\* the user cancels the select: exitIfCancel ends the process
PipelinePickCancelled ==
    /\ rpc = "prompt"
    /\ rpc' = "exited"
    /\ UNCHANGED <<configPipelines, optionsPipeline, entries, selection,
                   resolveError>>
    /\ UNCHANGED outsideResolver

(***************************************************************************)
(* The YAML texts the extractor is exercised with.                         *)
(***************************************************************************)
\* { name: n }
Named(n) == <<TextName, Str(<<n>>)>>

\* the items of a sequence-form parameters section
ParamItems ==
    { Str(<<"b">>), Str(<<>>), Num(IntNum(7)), Null, Arr(<<Str(<<"x">>)>>),
      Obj(<< Named("a"), <<TextType, Str(TextBoolean)>>, <<TextDefault, Bool(TRUE)>> >>),
      Obj(<< Named("b") >>),
      Obj(<< Named("n"), <<TextDefault, Num(IntNum(3))>> >>),
      Obj(<< Named("l"), <<TextDefault, Arr(<<Str(<<"x">>)>>)>>,
             <<TextValues, Arr(<<Str(<<"x">>), Str(<<"y">>)>>)>> >>),
      Obj(<< Named("o"), <<TextDefault, Obj(<<>>)>>, <<TextValues, Str(<<"x">>)>> >>),
      Obj(<< Named("s"), <<TextDefault, Str(<<"y">>)>>,
             <<TextValues, Arr(<<Str(<<"x">>), Str(<<"y">>)>>)>> >>),
      Obj(<< Named("v"), <<TextValues, Arr(<<Num(IntNum(1)), Num(IntNum(2))>>)>> >>),
      Obj(<< Named("w"), <<TextDefault, Arr(<<Str(<<"y">>)>>)>>,
             <<TextValues, Arr(<<Arr(<<Str(<<"x">>)>>), Arr(<<Str(<<"y">>)>>)>>)>> >>),
      Obj(<< Named("e"), <<TextType, Str(<<"E", "n", "v">>)>>, <<TextDefault, Null>> >>),
      Obj(<< Named("t"), <<TextType, Num(IntNum(3))>>, <<TextDefault, Bool(TRUE)>> >>),
      Obj(<< <<TextType, Str(TextString)>> >>),
      Obj(<< <<TextName, Num(IntNum(5))>> >>) }

\* the entries of a mapping-form parameters section
ParamEntries ==
    { <<<<"c">>, Num(IntNum(3))>>, <<<<"d">>, Str(<<"x">>)>>, <<<<"e">>, Null>>,
      <<<<"f">>, Bool(FALSE)>>, <<<<"g">>, Arr(<<>>)>>, <<<<"h">>, Obj(<<>>)>> }

\* the parameters sections: a sequence, a mapping with distinct keys, or
\* another shape
ParamSections ==
    {Arr(items) : items \in UNION {[1 .. k -> ParamItems] : k \in 0 .. MaxParams}}
    \cup
    {Obj(props) : props \in
        {pl \in UNION {[1 .. k -> ParamEntries] : k \in 0 .. MaxParams} :
            \A i, j \in 1 .. Len(pl) : i # j => pl[i][1] # pl[j][1]}}
    \cup
    {Null, Str(<<>>), Str(<<"x">>), Num(IntNum(0)), Num(IntNum(3)), Bool(FALSE), Bool(TRUE)}

\* a document with a parameters section
DocWith(params) == Obj(<< <<TextParameters, params>> >>)

\* the texts: of a document with a parameters section, without one, of
\* null, of a scalar, of a sequence; the empty text; a text YAML.parse
\* rejects
YamlTexts ==
    {YamlText(DocWith(params)) : params \in ParamSections}
    \cup
    {YamlText(Obj(<<>>)), YamlText(Obj(<< <<TextName, Str(<<"x">>)>> >>)),
     YamlText(Null), YamlText(Str(<<"x">>)), YamlText(Arr(<<Str(<<"x">>)>>)),
     EmptyText, Unparsable}

ExtractorIdle ==
    /\ xpc = "idle"
    /\ yamlContent = Null
    /\ yamlLabel = "none"
    /\ specs = <<>>

\* const specs = extractParamsFromYaml(yamlContent)
ExtractParamsFromYamlCall(yamlText) ==
    /\ xpc = "idle"
    /\ yamlContent' = yamlText
    /\ specs' = IF yamlText = Unparsable THEN <<>> ELSE ExtractParamsFromYaml(yamlText)
    /\ xpc' = IF yamlText = Unparsable THEN "threw" ELSE "returned"
    /\ UNCHANGED yamlLabel

(***************************************************************************)
(* The action of the build command (src/src/cli.ts).  The branch is not    *)
(* modelled: it decides no step of the action.                             *)
(***************************************************************************)
MissingConfigMessage == "Missing config"
MissingProjectMessage == "Missing orgUrl/project"
YamlParseMessage == "YAML parse error"

\* timeoutMs: 60 * 60 * 1000
BuildTimeoutMs == 60 * 60 * 1000

\* what loadConfig and getAzdoEnv find: no config file, no orgUrl or
\* project, or both
ConfigStates == {"missing", "incomplete", "ok"}

\* the catalogs and identifiers of the build command
BuildCatalogs ==
    {Undefined, Obj(<<EntryAndroidStaging, EntryIos>>),
     Obj(<< <<KeyBroken, Obj(<< <<TextId, Str(<<"a", "b", "c">>)>> >>)>> >>)}

BuildPipelineArgs ==
    {Undefined, Str(<<"1", "2">>), Str(<<"9", "9">>), Str(KeyIos), Str(KeyBroken),
     Str(<<"n", "o", "p", "e">>)}

\* the YAML texts a definition file or the service may hold
BuildTexts ==
    { YamlText(DocWith(Arr(<<
          Obj(<< Named("a"), <<TextType, Str(TextBoolean)>>,
                 <<TextDefault, Bool(TRUE)>> >>),
          Str(<<"b">>) >>))),
      YamlText(DocWith(Obj(<< <<<<"c">>, Num(IntNum(3))>>, <<<<"d">>, Str(<<"x">>)>> >>))),
      YamlText(DocWith(Arr(<<
          Obj(<< Named("a"), <<TextDefault, Str(<<"x">>)>>,
                 <<TextValues, Arr(<<Str(<<"x">>), Str(<<"y">>)>>)>> >>) >>))),
      YamlText(Obj(<<>>)),
      EmptyText,
      Unparsable }

\* what findYamlFiles may return in the build command
BuildFileLists ==
    {<<>>, <<PathIos>>, <<PathAndroidStaging, PathAndroidUpper>>}

\* the inputs of a text prompt
TextAnswers == {<<>>, <<"5">>, <<"x">>}

\* --param entries and ad-hoc flags
BuildParamEntries ==
    { <<>>,
      << <<"a", "=", "f", "a", "l", "s", "e">> >>,
      << <<"c", "=", "7">>, <<"x", "=", "1">>, <<"c", "=", "8">> >> }

BuildFlagArgs ==
    { <<>>,
      << <<"-", "-", "n", "o", "-", "a">> >>,
      << <<"-", "-", "c", "=", "9">>, <<"-", "-", "x">>, <<"y">> >> }

\* options.poll ?? fileConfig.defaults?.pollMs ?? process.env.AZDO_POLL_MS
PollInputs == {Undefined, Str(<<"0">>), Str(<<"5">>)}

BuildIdle ==
    /\ bpc = "idle"
    /\ exitCode = 0
    /\ buildError = "none"
    /\ optionsPrompt = TRUE
    /\ calls = <<>>
    /\ pidx = 0
    /\ initialValue = Undefined
    /\ parameters = <<>>
    /\ overrideParams = <<>>
    /\ flagParams = <<>>
    /\ mergedParams = <<>>

\* catch (err) { ui.error(...); process.exitCode = 1; }
Caught(message) ==
    /\ bpc' = "done"
    /\ exitCode' = 1
    /\ buildError' = message

\* exitIfCancel: outro("Canceled"); process.exit(1)
Exited ==
    /\ bpc' = "exited"
    /\ exitCode' = 1
    /\ UNCHANGED buildError

\* the action starts: loadConfig, getAzdoEnv, and the call of
\* resolvePipelineSelection
BuildCommand ==
    /\ bpc = "idle"
    /\ \E config \in ConfigStates, prompt \in BOOLEAN :
        /\ optionsPrompt' = prompt
        /\ IF config = "ok"
           THEN /\ \E catalog \in BuildCatalogs, identifier \in BuildPipelineArgs :
                      ResolvePipelineSelectionCall(catalog, identifier)
                /\ bpc' = "resolve"
                /\ UNCHANGED <<exitCode, buildError>>
           ELSE /\ Caught(IF config = "missing" THEN MissingConfigMessage
                          ELSE MissingProjectMessage)
                /\ UNCHANGED resVars
        /\ UNCHANGED <<calls, pidx, initialValue, parameters, overrideParams, flagParams, mergedParams>>
        /\ UNCHANGED <<mapVars, parVars, monVars, locVars, extVars>>

\* resolvePipelineSelection has settled, or exited the process; with no
\* --branch and with prompts, the branch is asked for
AfterResolve ==
    /\ bpc = "resolve"
    /\ rpc \in {"returned", "threw", "exited"}
    /\ \E branchGiven \in BOOLEAN :
        CASE rpc = "threw" -> Caught(resolveError)
          [] rpc = "exited" -> Exited
          [] OTHER -> /\ bpc' = IF ~branchGiven /\ optionsPrompt THEN "branchMethod"
                                ELSE "definition"
                      /\ UNCHANGED <<exitCode, buildError>>
    /\ UNCHANGED <<optionsPrompt, calls, pidx, initialValue, parameters, overrideParams, flagParams,
                   mergedParams>>
    /\ UNCHANGED <<mapVars, parVars, monVars, locVars, resVars, extVars>>

\* "Choose branch input" is answered (and listGitBranches has returned)
BranchMethodAnswered ==
    /\ bpc = "branchMethod"
    /\ bpc' = "branchInput"
    /\ UNCHANGED <<exitCode, buildError, optionsPrompt, calls, pidx, initialValue, parameters,
                   overrideParams, flagParams, mergedParams>>
    /\ UNCHANGED <<mapVars, parVars, monVars, locVars, resVars, extVars>>

\* the branch name is entered or selected
BranchAnswered ==
    /\ bpc = "branchInput"
    /\ bpc' = "definition"
    /\ UNCHANGED <<exitCode, buildError, optionsPrompt, calls, pidx, initialValue, parameters,
                   overrideParams, flagParams, mergedParams>>
    /\ UNCHANGED <<mapVars, parVars, monVars, locVars, resVars, extVars>>

\* a prompt of the action or of promptForParameters is cancelled
PromptCancelled ==
    /\ bpc \in {"branchMethod", "branchInput", "paramPrompt"}
    /\ Exited
    /\ UNCHANGED <<optionsPrompt, calls, pidx, initialValue, parameters, overrideParams, flagParams,
                   mergedParams>>
    /\ UNCHANGED <<mapVars, parVars, monVars, locVars, resVars, extVars>>

\* the definition lookup starts: the local file of the selection if it has
\* a path, else getPipelineYaml
DefinitionLookup ==
    /\ bpc = "definition"
    /\ IF Truthy(selection.path)
       THEN bpc' = "readLocal" /\ UNCHANGED calls
       ELSE bpc' = "lookup" /\ calls' = Append(calls, "getPipelineYaml")
    /\ UNCHANGED <<exitCode, buildError, optionsPrompt, pidx, initialValue, parameters, overrideParams,
                   flagParams, mergedParams>>
    /\ UNCHANGED <<mapVars, parVars, monVars, locVars, resVars, extVars>>

\* readLocalYaml(cwd, selection.path) has returned the text, or null for a
\* file that cannot be read; without content getPipelineYaml is called
ReadLocalYamlDone ==
    /\ bpc = "readLocal"
    /\ \E local \in BuildTexts \cup {Null} :
        /\ yamlContent' = IF Truthy(local) THEN local ELSE yamlContent
        /\ yamlLabel' = IF Truthy(local) THEN "path" ELSE yamlLabel
        /\ IF Truthy(local)
           THEN bpc' = "extract" /\ UNCHANGED calls
           ELSE bpc' = "lookup" /\ calls' = Append(calls, "getPipelineYaml")
    /\ UNCHANGED <<xpc, specs>>
    /\ UNCHANGED <<exitCode, buildError, optionsPrompt, pidx, initialValue, parameters, overrideParams,
                   flagParams, mergedParams>>
    /\ UNCHANGED <<mapVars, parVars, monVars, locVars, resVars>>

\* getPipelineYaml has returned, with content or without
GetPipelineYamlReturns ==
    /\ bpc = "lookup"
    /\ \E content \in BuildTexts \cup {Undefined} :
        /\ yamlContent' = IF Truthy(content) THEN content ELSE yamlContent
        /\ yamlLabel' = IF Truthy(content) THEN "remote" ELSE yamlLabel
        /\ bpc' = IF Truthy(content) THEN "extract" ELSE "locate"
    /\ UNCHANGED <<xpc, specs>>
    /\ UNCHANGED <<exitCode, buildError, optionsPrompt, calls, pidx, initialValue, parameters,
                   overrideParams, flagParams, mergedParams>>
    /\ UNCHANGED <<mapVars, parVars, monVars, locVars, resVars>>

\* getPipelineYaml has thrown: the catch keeps the message for a warning
GetPipelineYamlThrows ==
    /\ bpc = "lookup"
    /\ bpc' = "locate"
    /\ UNCHANGED <<exitCode, buildError, optionsPrompt, calls, pidx, initialValue, parameters,
                   overrideParams, flagParams, mergedParams>>
    /\ UNCHANGED <<mapVars, parVars, monVars, locVars, resVars, extVars>>

\* selectLocalYamlFile(cwd, selection.key, selection.name, options.prompt)
LocateDefinition ==
    /\ bpc = "locate"
    /\ lpc = "idle"
    /\ \E files \in BuildFileLists :
        SelectLocalYamlFileCall(LocatorArgs(files, selection.key, selection.name,
                                            optionsPrompt))
    /\ bpc' = "located"
    /\ UNCHANGED <<exitCode, buildError, optionsPrompt, calls, pidx, initialValue, parameters,
                   overrideParams, flagParams, mergedParams>>
    /\ UNCHANGED <<mapVars, parVars, monVars, resVars, extVars>>

\* selectLocalYamlFile has returned, or exited the process; its frame is
\* left
AfterLocate ==
    /\ bpc = "located"
    /\ lpc \in {"done", "exited"}
    /\ IF lpc = "exited" THEN Exited
       ELSE /\ bpc' = IF Truthy(located) THEN "readPick" ELSE "extract"
            /\ UNCHANGED <<exitCode, buildError>>
    /\ lpc' = "idle"
    /\ locArgs' = NoLocatorArgs
    /\ mapped' = <<>>
    /\ offered' = <<>>
    /\ located' = Null
    /\ UNCHANGED <<optionsPrompt, calls, pidx, initialValue, parameters, overrideParams, flagParams,
                   mergedParams>>
    /\ UNCHANGED <<mapVars, parVars, monVars, resVars, extVars>>

\* readLocalYaml(cwd, localPick) has returned the text, or null
ReadPickDone ==
    /\ bpc = "readPick"
    /\ \E local \in BuildTexts \cup {Null} :
        /\ yamlContent' = IF Truthy(local) THEN local ELSE yamlContent
        /\ yamlLabel' = IF Truthy(local) THEN "pick" ELSE yamlLabel
    /\ bpc' = "extract"
    /\ UNCHANGED <<xpc, specs>>
    /\ UNCHANGED <<exitCode, buildError, optionsPrompt, calls, pidx, initialValue, parameters,
                   overrideParams, flagParams, mergedParams>>
    /\ UNCHANGED <<mapVars, parVars, monVars, locVars, resVars>>

\* if (yamlContent) { const specs = extractParamsFromYaml(yamlContent); ... }:
\* YAML.parse may throw; with specs and prompts promptForParameters shows
\* its first prompt, with specs and without prompts the defaults are taken
ExtractSpecs ==
    /\ bpc = "extract"
    /\ IF ~Truthy(yamlContent)
       THEN /\ bpc' = "merge"
            /\ UNCHANGED <<exitCode, buildError, pidx, initialValue, parameters>>
            /\ UNCHANGED extVars
       ELSE /\ ExtractParamsFromYamlCall(yamlContent)
            /\ IF yamlContent = Unparsable
               THEN Caught(YamlParseMessage) /\ UNCHANGED <<pidx, initialValue, parameters>>
               ELSE \E found \in {ExtractParamsFromYaml(yamlContent)} :
                      /\ bpc' = IF Len(found) > 0 /\ optionsPrompt THEN "paramPrompt"
                                ELSE "merge"
                      /\ pidx' = IF Len(found) > 0 /\ optionsPrompt THEN 1 ELSE pidx
                      /\ initialValue' = IF Len(found) > 0 /\ optionsPrompt
                                         THEN InitialValue(found[1]) ELSE initialValue
                      /\ parameters' = IF Len(found) > 0 /\ ~optionsPrompt
                                       THEN DefaultsFromSpecs(found) ELSE parameters
                      /\ UNCHANGED <<exitCode, buildError>>
    /\ UNCHANGED <<optionsPrompt, calls, overrideParams, flagParams, mergedParams>>
    /\ UNCHANGED <<mapVars, parVars, monVars, locVars, resVars>>

\* what the prompt of a param may be answered with
AnswersFor(param) ==
    CASE PromptKind(param) = "select" ->
            {param.values.val[i] : i \in 1 .. Len(param.values.val)}
      [] PromptKind(param) = "confirm" -> {Bool(TRUE), Bool(FALSE)}
      [] OTHER -> {Str(input) : input \in TextAnswers}

\* a prompt of promptForParameters is answered; after the last one the
\* result is returned
ParamAnswered ==
    /\ bpc = "paramPrompt"
    /\ \E picked \in AnswersFor(specs[pidx]) :
        parameters' = PromptResult(parameters, specs[pidx], picked)
    /\ pidx' = pidx + 1
    /\ initialValue' = IF pidx = Len(specs) THEN Undefined
                       ELSE InitialValue(specs[pidx + 1])
    /\ bpc' = IF pidx = Len(specs) THEN "merge" ELSE "paramPrompt"
    /\ UNCHANGED <<exitCode, buildError, optionsPrompt, calls, overrideParams,
                   flagParams, mergedParams>>
    /\ UNCHANGED <<mapVars, parVars, monVars, locVars, resVars, extVars>>

\* parseParams, parseUnknownParamFlags, the merge, and the call of
\* triggerPipelineRun with the merged parameters
MergeAndTrigger ==
    /\ bpc = "merge"
    /\ \E paramEntries \in BuildParamEntries, args \in BuildFlagArgs :
        /\ overrideParams' = ParseParams(paramEntries)
        /\ flagParams' = ParseUnknownParamFlags(args)
        /\ mergedParams' = MergeParams(parameters, ParseParams(paramEntries),
                                       ParseUnknownParamFlags(args))
    /\ calls' = Append(calls, "triggerPipelineRun")
    /\ bpc' = "trigger"
    /\ UNCHANGED <<exitCode, buildError, optionsPrompt, pidx, initialValue, parameters>>
    /\ UNCHANGED <<mapVars, parVars, monVars, locVars, resVars, extVars>>

\* triggerPipelineRun has returned the run; with --no-wait the action ends,
\* else waitForCompletion is called.  The definition and the parameter
\* sets are not read again: the model drops them here.
TriggerReturns ==
    /\ bpc = "trigger"
    /\ \E wait \in BOOLEAN :
        IF wait
        THEN /\ \E poll \in PollInputs :
                  WaitForCompletion(WaitOptions(ParsePollMs(poll).whole, BuildTimeoutMs, TRUE))
             /\ bpc' = "wait"
        ELSE /\ bpc' = "done"
             /\ UNCHANGED monVars
    /\ xpc' = "idle"
    /\ yamlContent' = Null
    /\ yamlLabel' = "none"
    /\ specs' = <<>>
    /\ pidx' = 0
    /\ initialValue' = Undefined
    /\ parameters' = <<>>
    /\ overrideParams' = <<>>
    /\ flagParams' = <<>>
    /\ mergedParams' = <<>>
    /\ UNCHANGED <<exitCode, buildError, optionsPrompt, calls>>
    /\ UNCHANGED <<mapVars, parVars, locVars, resVars>>

\* a trigger that is attempted again when it has thrown
TriggerThrowsRetries ==
    /\ bpc \in {"trigger", "runTrigger"}
    /\ Len(calls) < 4
    /\ calls' = Append(calls, "triggerPipelineRun")
    /\ UNCHANGED <<bpc, exitCode, buildError, optionsPrompt, pidx, initialValue, parameters,
                   overrideParams, flagParams, mergedParams>>
    /\ UNCHANGED <<mapVars, parVars, monVars, locVars, resVars, extVars>>

\* triggerPipelineRun has thrown
TriggerThrows ==
    /\ bpc \in {"trigger", "runTrigger"}
    /\ Caught(ApiErrorMessage)
    /\ UNCHANGED <<optionsPrompt, calls, pidx, initialValue, parameters, overrideParams, flagParams,
                   mergedParams>>
    /\ UNCHANGED <<mapVars, parVars, monVars, locVars, resVars, extVars>>

\* an end of the wait that does not look at the result of the run
AfterWaitIgnoresResult ==
    /\ bpc \in {"wait", "runWait"}
    /\ wpc \in {"returned", "timedout", "failed"}
    /\ IF wpc = "returned"
       THEN /\ bpc' = "done"
            /\ UNCHANGED <<exitCode, buildError>>
       ELSE Caught(outcome.message)
    /\ UNCHANGED <<optionsPrompt, calls, pidx, initialValue, parameters, overrideParams, flagParams,
                   mergedParams>>
    /\ UNCHANGED <<mapVars, parVars, monVars, locVars, resVars, extVars>>

\* waitForCompletion has settled: a run that did not succeed, and an error,
\* set the exit code
AfterWait ==
    /\ bpc \in {"wait", "runWait"}
    /\ wpc \in {"returned", "timedout", "failed"}
    /\ IF wpc = "returned"
       THEN /\ bpc' = "done"
            /\ exitCode' = IF outcome.result # "succeeded" THEN 1 ELSE exitCode
            /\ UNCHANGED buildError
       ELSE Caught(outcome.message)
    /\ UNCHANGED <<optionsPrompt, calls, pidx, initialValue, parameters, overrideParams, flagParams,
                   mergedParams>>
    /\ UNCHANGED <<mapVars, parVars, monVars, locVars, resVars, extVars>>


(***************************************************************************)
(* The action of the run command.  It shares the catch, the trigger and    *)
(* the wait with the build command; its positions are "runTrigger" and     *)
(* "runWait".                                                              *)
(***************************************************************************)
MissingEnvMessage == "Missing env AZDO_ORG_URL"
PipelineNumberMessage == "--pipeline must be a number"
PollNumberMessage == "--poll must be a positive number"

\* options.pipeline and options.poll of the run command
RunPipelineArgs == {<<"1", "2">>, <<"i", "o", "s">>}
RunPollInputs == {<<"5">>, <<"0">>, <<"x">>}

\* the action starts: getAzdoConfig, Number(options.pipeline), the two
\* parameter sources and their merge, and the call of triggerPipelineRun
RunCommand ==
    /\ bpc = "idle"
    /\ \E envOk \in BOOLEAN, pipeline \in RunPipelineArgs,
          paramEntries \in BuildParamEntries, args \in BuildFlagArgs :
        IF ~envOk \/ IsNaN(StringToNumber(pipeline))
        THEN /\ Caught(IF ~envOk THEN MissingEnvMessage ELSE PipelineNumberMessage)
             /\ UNCHANGED <<calls, parameters, flagParams, mergedParams>>
        ELSE /\ parameters' = ParseParams(paramEntries)
             /\ flagParams' = ParseUnknownParamFlags(args)
             /\ mergedParams' = Spread(ParseParams(paramEntries), ParseUnknownParamFlags(args))
             /\ calls' = Append(calls, "triggerPipelineRun")
             /\ bpc' = "runTrigger"
             /\ UNCHANGED <<exitCode, buildError>>
    /\ UNCHANGED <<optionsPrompt, pidx, initialValue, overrideParams>>
    /\ UNCHANGED <<mapVars, parVars, monVars, locVars, resVars, extVars>>

\* triggerPipelineRun has returned the run; with --no-wait the action ends,
\* else options.poll is read and waitForCompletion is called
RunTriggerReturns ==
    /\ bpc = "runTrigger"
    /\ \E wait \in BOOLEAN, poll \in RunPollInputs :
        LET pollMs == StringToNumber(poll)
        IN  IF ~wait
            THEN /\ bpc' = "done"
                 /\ UNCHANGED <<exitCode, buildError, monVars>>
            ELSE IF IsNaN(pollMs) \/ ~IsPositive(pollMs)
            THEN /\ Caught(PollNumberMessage)
                 /\ UNCHANGED monVars
            ELSE /\ WaitForCompletion(WaitOptions(pollMs.whole, BuildTimeoutMs, TRUE))
                 /\ bpc' = "runWait"
                 /\ UNCHANGED <<exitCode, buildError>>
    /\ parameters' = <<>>
    /\ flagParams' = <<>>
    /\ mergedParams' = <<>>
    /\ UNCHANGED <<optionsPrompt, calls, pidx, initialValue, overrideParams>>
    /\ UNCHANGED <<mapVars, parVars, locVars, resVars, extVars>>

(***************************************************************************)
(* parseParams and parseUnknownParamFlags on their own, over every list of *)
(* at most MaxArgs texts of the choice sets.                               *)
(***************************************************************************)
\* --param entries: plain, boolean, padded value, padded key, a second '=',
\* no '=', empty key, blank key, empty value, negative fraction
ParamEntryPool ==
    { <<"a", "=", "1">>,
      <<"a", "=", "t", "r", "u", "e">>,
      <<"a", "=", " ", "x", " ">>,
      <<" ", "b", " ", "=", "f", "a", "l", "s", "e">>,
      <<"b", "=", " ", "c", "=", "d">>,
      <<"b">>,
      <<"=", "v">>,
      <<" ", "=", "1">>,
      <<"c", "=">>,
      <<"c", "=", "-", "1", ".", "5", "0">> }

\* leftover arguments
FlagArgPool ==
    { <<"-", "-", "x", "=", "1">>,
      <<"-", "-", "x">>,
      <<"-", "-", "n", "o", "-", "x">>,
      <<"-", "3">>,
      <<"-", "v">>,
      <<"y">>,
      <<"-", "-">>,
      <<>>,
      <<"-", "-", "y", "=", " ", "t", "r", "u", "e">>,
      <<"-", "-", "n", "o", "-">>,
      <<"-", "-", "=", "q">>,
      <<"-", "-", "x", "=", "a", "=", "b">> }

RECURSIVE ListsOver(_, _)
ListsOver(pool, n) ==
    IF n = 0 THEN {<<>>}
    ELSE ListsOver(pool, n - 1)
         \cup {Append(l, e) : l \in {m \in ListsOver(pool, n - 1) : Len(m) = n - 1}, e \in pool}

ParserIdle ==
    /\ ppc = "idle"
    /\ cliInput = <<>>
    /\ cliParams = <<>>

\* no catalog is being built
CatalogIdle ==
    /\ mpc = "idle"
    /\ pipelineList = <<>>
    /\ pipelineMap = <<>>

ParseParamsCall ==
    /\ ppc = "idle"
    /\ \E paramEntries \in ListsOver(ParamEntryPool, MaxArgs) :
        /\ cliInput' = paramEntries
        /\ cliParams' = ParseParams(paramEntries)
    /\ ppc' = "params"
    /\ UNCHANGED <<monVars, locVars, resVars, extVars, bldVars, mapVars>>

ParseUnknownParamFlagsCall ==
    /\ ppc = "idle"
    /\ \E args \in ListsOver(FlagArgPool, MaxArgs) :
        /\ cliInput' = args
        /\ cliParams' = ParseUnknownParamFlags(args)
    /\ ppc' = "flags"
    /\ UNCHANGED <<monVars, locVars, resVars, extVars, bldVars, mapVars>>

\* the caller takes the record
ParserReturns ==
    /\ ppc # "idle"
    /\ ppc' = "idle"
    /\ cliInput' = <<>>
    /\ cliParams' = <<>>
    /\ UNCHANGED <<monVars, locVars, resVars, extVars, bldVars, mapVars>>

InitParser ==
    MonitorIdle /\ now = 0 /\ LocatorIdle /\ ResolverIdle /\ ExtractorIdle /\ BuildIdle /\ ParserIdle /\ CatalogIdle

NextParser ==
    \/ ParseParamsCall
    \/ ParseUnknownParamFlagsCall
    \/ ParserReturns

SpecParser == InitParser /\ [][NextParser]_vars

(***************************************************************************)
(* buildPipelineMap of the init command, over every list of at most        *)
(* MaxPipelines pipelines with pairwise distinct ids.                      *)
(***************************************************************************)
\* a PipelineInfo without folder, and the { id, name } stored in the catalog
PipelineInfo(id, name) == [id |-> id, name |-> name]

\* .replace(/[^a-z0-9]+/g, "_"): every maximal run of other characters
\* becomes one "_"; inRun tells whether the previous character was replaced
RECURSIVE ReplaceOtherRuns(_, _)
ReplaceOtherRuns(s, inRun) ==
    IF s = <<>> THEN <<>>
    ELSE IF Head(s) \in LowerAlnum THEN <<Head(s)>> \o ReplaceOtherRuns(Tail(s), FALSE)
    ELSE IF inRun THEN ReplaceOtherRuns(Tail(s), TRUE)
    ELSE <<"_">> \o ReplaceOtherRuns(Tail(s), TRUE)

\* .replace(/^_+|_+$/g, "")
RECURSIVE StripLeadingUnderscores(_)
StripLeadingUnderscores(s) ==
    IF s # <<>> /\ Head(s) = "_" THEN StripLeadingUnderscores(Tail(s)) ELSE s

RECURSIVE StripTrailingUnderscores(_)
StripTrailingUnderscores(s) ==
    IF s # <<>> /\ s[Len(s)] = "_"
    THEN StripTrailingUnderscores(SubSeq(s, 1, Len(s) - 1))
    ELSE s

TextPipeline == <<"p", "i", "p", "e", "l", "i", "n", "e">>

SlugifyPipelineName(name) ==
    LET slug == StripTrailingUnderscores(StripLeadingUnderscores(
                    ReplaceOtherRuns(ToLowerCase(name), FALSE)))
    IN  IF slug = <<>> THEN TextPipeline ELSE slug

\* the properties every object literal inherits from Object.prototype whose
\* name can be a slug (lower-case letters and digits with single "_" inside)
InheritedProps == {<<"c", "o", "n", "s", "t", "r", "u", "c", "t", "o", "r">>}

\* if (map[key]): an own entry is an object, an inherited property a function
MapHas(catalogMap, slugKey) ==
    HasProp(catalogMap, slugKey) \/ slugKey \in InheritedProps

\* `${key}_${pipeline.id}`
SuffixedKey(slugKey, id) == slugKey \o <<"_">> \o DigitsOf(id)

\* one turn of the loop of buildPipelineMap
PutPipeline(catalogMap, pipeline) ==
    LET slugKey == SlugifyPipelineName(pipeline.name)
        finalKey == IF MapHas(catalogMap, slugKey)
                    THEN SuffixedKey(slugKey, pipeline.id)
                    ELSE slugKey
    IN  SetProp(catalogMap, finalKey, PipelineInfo(pipeline.id, pipeline.name))

RECURSIVE BuildPipelineMapFrom(_, _)
BuildPipelineMapFrom(catalogMap, listed) ==
    IF listed = <<>> THEN catalogMap
    ELSE BuildPipelineMapFrom(PutPipeline(catalogMap, Head(listed)), Tail(listed))

BuildPipelineMap(listed) == BuildPipelineMapFrom(<<>>, listed)

\* pipeline names: plain, upper case, ending in a number, two that need
\* replacing, nothing left after replacing, an inherited property name
PipelineNamePool ==
    { <<"a">>,
      <<"A">>,
      <<"a", " ", "2">>,
      <<"a", "-", "-", "3", "!">>,
      <<"#">>,
      <<"c", "o", "n", "s", "t", "r", "u", "c", "t", "o", "r">>,
      <<"c", "o", "n", "s", "t", "r", "u", "c", "t", "o", "r", " ", "1">> }

PipelineIds == 1 .. MaxPipelines

\* the answers of listPipelines with at most n pipelines: the service gives
\* every pipeline its own id
RECURSIVE PipelineLists(_)
PipelineLists(n) ==
    IF n = 0 THEN {<<>>}
    ELSE LET shorter == PipelineLists(n - 1)
         IN  shorter \cup UNION {
                 {Append(l, PipelineInfo(i, nm)) :
                     i \in PipelineIds \ {l[k].id : k \in 1 .. Len(l)},
                     nm \in PipelineNamePool} :
                 l \in {m \in shorter : Len(m) = n - 1}}

\* initCommand builds the catalog of the pipelines listed
BuildPipelineMapCall ==
    /\ mpc = "idle"
    /\ \E listed \in PipelineLists(MaxPipelines) :
        /\ pipelineList' = listed
        /\ pipelineMap' = BuildPipelineMap(listed)
    /\ mpc' = "returned"
    /\ UNCHANGED <<monVars, locVars, resVars, extVars, bldVars, parVars>>

\* the catalog is put into the config file
CatalogTaken ==
    /\ mpc = "returned"
    /\ mpc' = "idle"
    /\ pipelineList' = <<>>
    /\ pipelineMap' = <<>>
    /\ UNCHANGED <<monVars, locVars, resVars, extVars, bldVars, parVars>>

InitCatalog ==
    MonitorIdle /\ now = 0 /\ LocatorIdle /\ ResolverIdle /\ ExtractorIdle /\ BuildIdle /\ ParserIdle /\ CatalogIdle

NextCatalog ==
    \/ BuildPipelineMapCall
    \/ CatalogTaken

SpecCatalog == InitCatalog /\ [][NextCatalog]_vars

(***************************************************************************)
(* The monitor on its own, under every option of the choice sets.          *)
(***************************************************************************)
CallWait ==
    /\ wpc = "idle"
    /\ \E p \in PollChoices, t \in TimeoutChoices, o \in BOOLEAN :
        /\ WaitForCompletion(WaitOptions(p, t, o))
        /\ UNCHANGED outsideMonitor

InitMonitor ==
    MonitorIdle /\ LocatorIdle /\ ResolverIdle /\ ExtractorIdle /\ BuildIdle /\ ParserIdle /\ CatalogIdle

NextMonitor ==
    \/ CallWait
    \/ QueryReturns
    \/ QueryThrows
    \/ SleepDone

SpecMonitor == InitMonitor /\ [][NextMonitor]_vars

(***************************************************************************)
(* The locator on its own, under every file list, key and name of the      *)
(* choice sets.                                                            *)
(***************************************************************************)
CallLocator ==
    /\ lpc = "idle"
    /\ \E files \in FileLists, kn \in KeyNameChoices, interactive \in BOOLEAN :
        /\ SelectLocalYamlFileCall(LocatorArgs(files, kn[1], kn[2], interactive))
        /\ UNCHANGED outsideLocator

InitLocator ==
    MonitorIdle /\ now = 0 /\ LocatorIdle /\ ResolverIdle /\ ExtractorIdle /\ BuildIdle /\ ParserIdle /\ CatalogIdle

NextLocator ==
    \/ CallLocator
    \/ SelectAnswered
    \/ SelectCancelled

SpecLocator == InitLocator /\ [][NextLocator]_vars

(***************************************************************************)
(* The resolver on its own, under every catalog and identifier of the      *)
(* choice sets.                                                            *)
(***************************************************************************)
CallResolver ==
    /\ rpc = "idle"
    /\ \E catalog \in Catalogs, identifier \in PipelineArgs :
        /\ ResolvePipelineSelectionCall(catalog, identifier)
        /\ UNCHANGED outsideResolver

InitResolver ==
    MonitorIdle /\ now = 0 /\ LocatorIdle /\ ResolverIdle /\ ExtractorIdle /\ BuildIdle /\ ParserIdle /\ CatalogIdle

NextResolver ==
    \/ CallResolver
    \/ PipelinePicked
    \/ PipelinePickCancelled

SpecResolver == InitResolver /\ [][NextResolver]_vars

(***************************************************************************)
(* The extractor on its own, under every document of the choice set.       *)
(***************************************************************************)
CallExtractor ==
    /\ xpc = "idle"
    /\ \E yamlText \in YamlTexts :
        /\ ExtractParamsFromYamlCall(yamlText)
        /\ UNCHANGED outsideExtractor

InitExtractor ==
    MonitorIdle /\ now = 0 /\ LocatorIdle /\ ResolverIdle /\ ExtractorIdle /\ BuildIdle /\ ParserIdle /\ CatalogIdle

NextExtractor == CallExtractor

SpecExtractor == InitExtractor /\ [][NextExtractor]_vars

(***************************************************************************)
(* The monitor under the poll interval of the build command, with getRun   *)
(* always answering and the timer of sleep always firing.                  *)
(***************************************************************************)
\* options.poll ?? fileConfig.defaults?.pollMs ?? process.env.AZDO_POLL_MS:
\* missing, empty, no number, zero, negative, and whole numbers
PollValues ==
    { Undefined, Null, Str(<<>>), Str(<<"a", "b", "c">>), Str(<<"0">>), Str(<<"-", "5">>),
      Str(<<"1">>), Str(<<"3">>), Num(IntNum(0)), Num(IntNum(2)), Num(NaN) }

\* the wait is called with parsePollMs(value); the waits that need more
\* than MaxQueries queries are left out
CallWaitParsed ==
    /\ wpc = "idle"
    /\ \E value \in PollValues, t \in TimeoutChoices, o \in BOOLEAN :
        \E pollMs \in {ParsePollMs(value).whole} :
            /\ pollMs = 0 \/ (t \div pollMs) + 2 <= MaxQueries
            /\ WaitForCompletion(WaitOptions(pollMs, t, o))
    /\ UNCHANGED outsideMonitor

NextTermination ==
    \/ CallWaitParsed
    \/ QueryReturns
    \/ SleepDone

\* every query counts itself and every suspension counts itself: a step of
\* QueryReturns or of SleepDone is never a stuttering step
SpecTermination ==
    /\ InitMonitor
    /\ [][NextTermination]_vars
    /\ WF_queries(QueryReturns)
    /\ WF_sleeps(SleepDone)

(***************************************************************************)
(* promptForParameters on its own, under the spec list of every text of    *)
(* the choice set.                                                         *)
(***************************************************************************)
CallPrompter ==
    /\ bpc = "idle"
    /\ \E yamlText \in YamlTexts \ {Unparsable} :
        /\ Len(ExtractParamsFromYaml(yamlText)) > 0
        /\ ExtractParamsFromYamlCall(yamlText)
        /\ initialValue' = InitialValue(ExtractParamsFromYaml(yamlText)[1])
    /\ bpc' = "paramPrompt"
    /\ pidx' = 1
    /\ UNCHANGED <<exitCode, buildError, optionsPrompt, calls, parameters, overrideParams,
                   flagParams, mergedParams>>
    /\ UNCHANGED <<mapVars, parVars, monVars, locVars, resVars>>

InitPrompter ==
    MonitorIdle /\ now = 0 /\ LocatorIdle /\ ResolverIdle /\ ExtractorIdle /\ BuildIdle /\ ParserIdle /\ CatalogIdle

NextPrompter ==
    \/ CallPrompter
    \/ ParamAnswered
    \/ PromptCancelled

SpecPrompter == InitPrompter /\ [][NextPrompter]_vars

(***************************************************************************)
(* The build command.                                                      *)
(***************************************************************************)
Init ==
    MonitorIdle /\ now = 0 /\ LocatorIdle /\ ResolverIdle /\ ExtractorIdle /\ BuildIdle /\ ParserIdle /\ CatalogIdle

Next ==
    \/ BuildCommand
    \/ PipelinePicked
    \/ PipelinePickCancelled
    \/ AfterResolve
    \/ BranchMethodAnswered
    \/ BranchAnswered
    \/ PromptCancelled
    \/ DefinitionLookup
    \/ ReadLocalYamlDone
    \/ GetPipelineYamlReturns
    \/ GetPipelineYamlThrows
    \/ LocateDefinition
    \/ SelectAnswered
    \/ SelectCancelled
    \/ AfterLocate
    \/ ReadPickDone
    \/ ExtractSpecs
    \/ ParamAnswered
    \/ MergeAndTrigger
    \/ TriggerReturns
    \/ TriggerThrows
    \/ QueryReturns
    \/ QueryThrows
    \/ SleepDone
    \/ AfterWait
    \/ RunCommand
    \/ RunTriggerReturns

Spec == Init /\ [][Next]_vars

(***************************************************************************)
(* Claims about waitForCompletion, checked under SpecMonitor.              *)
(***************************************************************************)
elapsed == now - started

\* C2: the wait returns the first response whose state is completed: when
\* the n-th response is the first completed one, the wait has returned exactly
\* that response, after exactly n queries and n-1 suspensions, and no query
\* or suspension follows; and a returned wait has seen a completed response.
C2_ReturnsFirstCompleted ==
    /\ completedAt # 0 =>
          /\ wpc = "returned"
          /\ outcome = run
          /\ run.state = "completed"
          /\ run.serial = completedAt
          /\ queries = completedAt
          /\ sleeps = completedAt - 1
    /\ wpc = "returned" => completedAt # 0

\* queued, inProgress, then completed: returned at the third response
C2_Witness ==
    /\ wpc = "returned"
    /\ firstState = "queued"
    /\ completedAt = 3
    /\ sleeps = 2

\* C3 as stated: with a timeout shorter than the poll interval, a wait whose
\* first response is not completed ends with the timeout error.
C3_FirstNotCompletedTimesOut ==
    ( /\ options.timeoutMs < options.pollMs
      /\ firstState \notin {"none", "completed"}
      /\ wpc \in {"returned", "timedout"} )
    => wpc = "timedout"

\* C3 (amended): no timeout error before the first query; right after a first
\* response that is not completed the wait fails with the timeout error
\* exactly when the elapsed time is then greater than timeoutMs, and
\* otherwise suspends for the poll interval.
C3_FirstIterationGuarantee ==
    /\ wpc = "timedout" => queries >= 1 /\ outcome = Thrown(TimeoutMessage)
    /\ ( /\ queries = 1
         /\ sleeps = 0
         /\ firstState \notin {"none", "completed"} )
       => /\ wpc \in {"timedout", "sleep"}
          /\ wpc = "timedout" <=> elapsed > options.timeoutMs

\* poll 10 ms, timeout 5 ms: timed out after the first and only query
C3_Witness ==
    /\ options.pollMs = 10
    /\ options.timeoutMs = 5
    /\ wpc = "timedout"
    /\ queries = 1
    /\ firstState = "queued"

\* C4: a getRun query that throws ends the wait with that same error: it is
\* the last query, no observer call is made for it, no suspension follows
\* and the error is not turned into the timeout error.
C4_QueryFailurePropagates ==
    thrownAt # 0 =>
        /\ wpc = "failed"
        /\ outcome = Thrown(ApiErrorMessage)
        /\ outcome # Thrown(TimeoutMessage)
        /\ queries = thrownAt
        /\ sleeps = thrownAt - 1
        /\ observed = IF options.onUpdate THEN [i \in 1 .. thrownAt - 1 |-> i]
                      ELSE <<>>

\* the second query throws, with an observer installed
C4_Witness ==
    /\ wpc = "failed"
    /\ thrownAt = 2
    /\ options.onUpdate
    /\ Len(observed) = 1

\* C5: the completion check precedes the timeout check: a completed response
\* is returned whatever the elapsed time, and the timeout error is raised
\* only right after a response that is not completed, with the elapsed time
\* strictly greater than timeoutMs.
C5_CompletionBeforeTimeout ==
    /\ run.state = "completed" => wpc = "returned" /\ outcome = run
    /\ wpc = "timedout" =>
          /\ run.serial = queries
          /\ run.state # "completed"
          /\ thrownAt = 0
          /\ elapsed > options.timeoutMs

\* a completed response returned after the deadline has passed
C5_Witness ==
    /\ wpc = "returned"
    /\ run.state = "completed"
    /\ elapsed > options.timeoutMs

(***************************************************************************)
(* Claims about the locator, checked under SpecLocator.                    *)
(***************************************************************************)
\* positions of the candidates that score more than 0
PositiveAt == {i \in 1 .. Len(mapped) : mapped[i].score > 0}
\* positions of the candidates that reach the maximum score
BestAt == {i \in PositiveAt : \A j \in PositiveAt : mapped[j].score <= mapped[i].score}
FirstBest == CHOOSE i \in BestAt : \A j \in BestAt : i <= j

\* C8: candidates scoring 0 are discarded; with none left the result is
\* null; a single candidate of maximum score is returned without a prompt;
\* of several tied at the maximum the first in enumeration order is returned
\* in non-interactive mode, and in interactive mode the prompt offers
\* exactly the tied candidates and its answer is the result.
C8_LocatorResult ==
    lpc # "idle" =>
        /\ \A i \in 1 .. Len(mapped) : mapped[i].file = locArgs.files[i]
        /\ PositiveAt = {} => lpc = "done" /\ located = Null
        /\ Cardinality(BestAt) = 1 =>
              lpc = "done" /\ located = Str(locArgs.files[FirstBest])
        /\ Cardinality(BestAt) > 1 /\ ~locArgs.interactive =>
              lpc = "done" /\ located = Str(locArgs.files[FirstBest])
        /\ Cardinality(BestAt) > 1 /\ locArgs.interactive =>
              /\ {offered[i] : i \in 1 .. Len(offered)}
                    = {locArgs.files[i] : i \in BestAt}
              /\ Len(offered) = Cardinality(BestAt)
              /\ lpc = "done" => located \in {Str(offered[i]) : i \in 1 .. Len(offered)}
        /\ lpc \in {"prompt", "exited"} =>
              locArgs.interactive /\ Cardinality(BestAt) > 1

\* a tie in non-interactive mode whose first tied candidate is not the
\* first file, behind a candidate scoring 0 and one scoring less
C8_Witness ==
    /\ lpc = "done"
    /\ ~locArgs.interactive
    /\ Cardinality(BestAt) = 2
    /\ FirstBest > 1
    /\ PositiveAt # 1 .. Len(mapped)
    /\ located = Str(locArgs.files[FirstBest])

\* s contains sub: from some position on, s reads sub
Contains(s, sub) ==
    \E a \in 0 .. Len(s) - Len(sub) : \A k \in 1 .. Len(sub) : s[a + k] = sub[k]

\* the sum of the weights of the signals that hold
SignalSum(path, key, name) ==
    LET base == ToLowerCase(BaseName(path, ExtName(path)))
        baseN == NormalizeForMatch(Str(base))
        pathN == NormalizeForMatch(Str(path))
        keyN == NormalizeForMatch(key)
        nameN == NormalizeForMatch(name)
        hasKey == key.kind = "string" /\ keyN # <<>>
        hasName == name.kind = "string" /\ nameN # <<>>
        Weight(holds, w) == IF holds THEN w ELSE 0
    IN    Weight(hasKey /\ Contains(baseN, keyN), 8)
        + Weight(hasName /\ Contains(baseN, nameN), 6)
        + Weight(hasKey /\ Contains(pathN, keyN), 4)
        + Weight(hasName /\ Contains(pathN, nameN), 3)
        + Weight(Contains(base, AzurePipelinesText), 2)
        + Weight(Contains(pathN, PipelineText), 1)

\* C9: the score of a candidate is the sum of the fixed weights of exactly
\* the signals that hold (8, 6, 4, 3, 2, 1), an absent or empty key or name
\* adding nothing, so that it is a function of the path, the key and the
\* name alone; key android_staging scores 12 on ci/android-staging.yml and
\* 0 on ci/ios.yml.
C9_ScoreIsSumOfSignals ==
    \A i \in 1 .. Len(mapped) :
        LET path == mapped[i].file
            key == locArgs.pipelineKey
            name == locArgs.pipelineName
        IN  /\ mapped[i].score = SignalSum(path, key, name)
            /\ ( /\ key = Str(KeyAndroidStaging)
                 /\ name = Undefined
                 /\ path = PathAndroidStaging ) => mapped[i].score = 12
            /\ ( /\ key = Str(KeyAndroidStaging)
                 /\ name = Undefined
                 /\ path = PathIos ) => mapped[i].score = 0

\* key android_staging, no name: ci/android-staging.yml scored 12 and
\* ci/ios.yml scored 0, and a path that only its directory matches scored 4
C9_Witness ==
    /\ locArgs.pipelineKey = Str(KeyAndroidStaging)
    /\ locArgs.pipelineName = Undefined
    /\ \E i, j, k \in 1 .. Len(mapped) :
          /\ mapped[i] = ScoredItem(PathAndroidStaging, 12)
          /\ mapped[j] = ScoredItem(PathIos, 0)
          /\ mapped[k] = ScoredItem(PathAndroidDir, 4)

\* the signals of a candidate, read off the path itself: what is left of
\* the path, of its last segment without extension, of the key and of the
\* name when only lower-cased letters and digits are kept
Lettering(text) == KeepChars(ToLowerCase(text), LowerAlnum)

LetteringOf(value) == IF value.kind = "string" THEN Lettering(value.val) ELSE <<>>

Stem(path) == BaseName(path, ExtName(path))

InStem(path, value) ==
    LetteringOf(value) # <<>> /\ Contains(Lettering(Stem(path)), LetteringOf(value))

InPath(path, value) ==
    LetteringOf(value) # <<>> /\ Contains(Lettering(path), LetteringOf(value))

StemIsAzure(path) == Contains(ToLowerCase(Stem(path)), AzurePipelinesText)

PathHasPipeline(path) == Contains(Lettering(path), PipelineText)

\* what a pair of signals adds: nothing, the path weight, or both weights
Share(inStem, inPath, stemWeight, pathWeight) ==
    (IF inStem THEN stemWeight ELSE 0) + (IF inPath THEN pathWeight ELSE 0)

\* C22: the signals of scoreYamlCandidate are not independent: a base-name
\* signal never holds without its path signal (8 never without 4, 6 never
\* without 3, 2 never without 1), so the key adds 0, 4 or 12, the name 0, 3
\* or 9, the two literals 0, 1 or 3, and every score lies in 0 .. 24.
C22_SignalsNested ==
    \A i \in 1 .. Len(mapped) :
        LET path == mapped[i].file
            key == locArgs.pipelineKey
            name == locArgs.pipelineName
            keyShare == Share(InStem(path, key), InPath(path, key), 8, 4)
            nameShare == Share(InStem(path, name), InPath(path, name), 6, 3)
            literalShare == Share(StemIsAzure(path), PathHasPipeline(path), 2, 1)
        IN  /\ InStem(path, key) => InPath(path, key)
            /\ InStem(path, name) => InPath(path, name)
            /\ StemIsAzure(path) => PathHasPipeline(path)
            /\ keyShare \in {0, 4, 12}
            /\ nameShare \in {0, 3, 9}
            /\ literalShare \in {0, 1, 3}
            /\ mapped[i].score = keyShare + nameShare + literalShare
            /\ mapped[i].score \in 0 .. 24

\* one call scored a candidate 24 (every signal), one 7 (key and name in
\* the directory alone) and one 1 (the literal "pipeline" in the directory
\* alone)
C22_Witness ==
    /\ locArgs.pipelineKey = Str(KeyAndroidStaging)
    /\ locArgs.pipelineName = Str(NameAndroidStaging)
    /\ \E i, j, k \in 1 .. Len(mapped) :
          /\ mapped[i] = ScoredItem(PathAzureAndroid, 24)
          /\ mapped[j] = ScoredItem(PathAndroidDir, 7)
          /\ mapped[k] = ScoredItem(PathPipelinesIos, 1)

(***************************************************************************)
(* Claims about the selection resolver, checked under SpecResolver.        *)
(***************************************************************************)
\* C6: whenever resolvePipelineSelection returns a selection, the id of the
\* selection is a valid integer.
C6_SelectionIdIsInteger ==
    rpc = "returned" => IsInteger(selection.id)

(***************************************************************************)
(* Claims about the extractor, checked under SpecExtractor.                *)
(***************************************************************************)
\* the top-level parameters section of the document
Section == GetProp(YamlParse(yamlContent), TextParameters)

\* the type inferred from a default: array for a sequence, string for an
\* absent or null one, else the kind of the value
InferredFrom(v) ==
    CASE v.kind \in {"undefined", "null", "string"} -> TextString
      [] v.kind = "array" -> TextArray
      [] v.kind = "number" -> TextNumber
      [] v.kind = "boolean" -> TextBoolean
      [] v.kind = "object" -> TextObject

\* an item of the sequence that yields a spec: a bare string, or an object
\* with a string name
IsKept(e) ==
    \/ e.kind = "string"
    \/ e.kind = "object" /\ GetProp(e, TextName).kind = "string"

\* the place among the specs of the item at place i
Rank(items, i) == Cardinality({j \in 1 .. i : IsKept(items[j])})

\* the type of an object item: the declared type if it is a string, else
\* inferred from the default
DeclaredStringOrInferred(e) ==
    IF GetProp(e, TextType).kind = "string" THEN GetProp(e, TextType)
    ELSE Str(InferredFrom(GetProp(e, TextDefault)))

\* the type of an object item: the declared type if there is one, else
\* inferred from the default
DeclaredOrInferred(e) ==
    IF GetProp(e, TextType).kind # "undefined" THEN GetProp(e, TextType)
    ELSE Str(InferredFrom(GetProp(e, TextDefault)))

\* the spec an item yields, given the type of an object item
ItemYields(spec, e, type) ==
    IF e.kind = "string"
    THEN spec.name = e.val /\ spec.type = Str(TextString) /\ spec.default = Undefined
    ELSE /\ spec.name = GetProp(e, TextName).val
         /\ spec.type = type
         /\ spec.default = GetProp(e, TextDefault)

\* the specs follow the shape of the parameters section
ExtractedByShape(TypeOfItem(_)) ==
    xpc = "returned" =>
        CASE Section.kind = "array" ->
                /\ Len(specs) = Rank(Section.val, Len(Section.val))
                /\ \A i \in 1 .. Len(Section.val) :
                      IsKept(Section.val[i]) =>
                          ItemYields(specs[Rank(Section.val, i)], Section.val[i],
                                     TypeOfItem(Section.val[i]))
          [] Section.kind = "object" ->
                /\ Len(specs) = Len(Section.val)
                /\ \A i \in 1 .. Len(Section.val) :
                      specs[i] = ParamSpec(Section.val[i][1],
                                           Str(InferredFrom(Section.val[i][2])),
                                           Section.val[i][2], Undefined)
          [] OTHER -> specs = <<>>

\* C10 as stated: extractParamsFromYaml maps the parameters section to specs
\* by shape, an object item with a string name taking its type verbatim
\* whenever a type is present.
C10_TypeVerbatimIfPresent == ExtractedByShape(DeclaredOrInferred)

\* C10: extractParamsFromYaml maps the parameters section to specs by shape:
\* absent or any other shape yields the empty list; a sequence yields, in
\* declaration order, one spec per bare string and one per object with a
\* string name, dropping every other item; a mapping yields one spec per key
\* with the value as default and the type inferred from it.  An object item
\* takes its type verbatim if the type is a string, and otherwise has it
\* inferred from the default.
C10_ExtractionByShape == ExtractedByShape(DeclaredStringOrInferred)

\* a sequence with a bare string and with an object whose type is present
\* but is no string: the type of its spec is inferred from the default
C10_Witness ==
    /\ xpc = "returned"
    /\ Section.kind = "array"
    /\ \E i, j \in 1 .. Len(Section.val) :
        /\ Section.val[j].kind = "string"
        /\ IsKept(Section.val[i])
        /\ Section.val[i].kind = "object"
        /\ GetProp(Section.val[i], TextType).kind = "number"
        /\ GetProp(Section.val[i], TextDefault) = Bool(TRUE)
        /\ specs[Rank(Section.val, i)].type = Str(TextBoolean)
        /\ Len(specs) = 2

(***************************************************************************)
(* Claims about the build command, checked under Spec.                     *)
(***************************************************************************)
\* the keys of the catalog whose entry is usable: an entry with a numeric id
UsableKeys ==
    IF configPipelines.kind # "object" THEN {}
    ELSE {configPipelines.val[i][1] : i \in
            {j \in 1 .. Len(configPipelines.val) :
                /\ Truthy(configPipelines.val[j][2])
                /\ ~IsNaN(ToNumber(GetProp(configPipelines.val[j][2], TextId)))}}

\* an identifier is supplied (the empty text counts as none), is not
\* numeric and is no key of a usable entry; or none is supplied and the
\* catalog has no usable entry
IdentifierUnknown ==
    /\ Truthy(optionsPipeline)
    /\ IsNaN(StringToNumber(optionsPipeline.val))
    /\ optionsPipeline.val \notin UsableKeys

NothingToSelect == ~Truthy(optionsPipeline) /\ UsableKeys = {}

\* C7: when the identifier is not numeric and is no catalog key, or when no
\* identifier is supplied and the catalog has no usable entry,
\* resolvePipelineSelection raises an error, no service call is made, no run
\* is triggered, and the command ends with exit code 1.
C7_ResolutionFailsBeforeAnyCall ==
    (rpc # "idle" /\ (IdentifierUnknown \/ NothingToSelect)) =>
        /\ rpc = "threw"
        /\ resolveError = IF IdentifierUnknown THEN UnknownPipelineMessage
                          ELSE NoPipelinesMessage
        /\ calls = <<>>
        /\ queries = 0
        /\ bpc \in {"resolve", "done"}
        /\ bpc = "done" => exitCode = 1 /\ buildError = resolveError

\* the command has ended with exit code 1 on a key of no usable entry
C7_Witness ==
    /\ IdentifierUnknown
    /\ optionsPipeline.val = KeyBroken
    /\ configPipelines.kind = "object"
    /\ bpc = "done"
    /\ exitCode = 1
    /\ buildError = UnknownPipelineMessage
    /\ calls = <<>>

\* the keys of a parameter set
Keys(props) == {props[i][1] : i \in 1 .. Len(props)}

\* the places of the specs that declare a default for key k
Declaring(k) ==
    {i \in 1 .. Len(specs) : specs[i].name = k /\ specs[i].default # Undefined}

\* the base source when prompting is skipped: the declared defaults
BaseIsDefaults ==
    /\ Keys(parameters) = {specs[i].name : i \in {j \in 1 .. Len(specs) :
                                                    specs[j].default # Undefined}}
    /\ \A k \in Keys(parameters) :
          \E i \in Declaring(k) :
              /\ \A j \in Declaring(k) : j <= i
              /\ PropOf(parameters, k) = specs[i].default

\* C1: the merged parameter set sent to triggerPipelineRun holds, for every
\* key, the flag value if the flags define the key, else the --param
\* override if the overrides define it, else the value of the base source
\* (the declared defaults when prompting is skipped, the answers
\* otherwise); its keys are exactly the union of the keys of all sources.
C1_MergePrecedence ==
    bpc = "trigger" =>
        /\ calls[Len(calls)] = "triggerPipelineRun"
        /\ Keys(mergedParams) =
              Keys(parameters) \cup Keys(overrideParams) \cup Keys(flagParams)
        /\ Cardinality(Keys(mergedParams)) = Len(mergedParams)
        /\ \A k \in Keys(mergedParams) :
              PropOf(mergedParams, k) =
                  IF k \in Keys(flagParams) THEN PropOf(flagParams, k)
                  ELSE IF k \in Keys(overrideParams) THEN PropOf(overrideParams, k)
                  ELSE PropOf(parameters, k)
        /\ ~optionsPrompt => BaseIsDefaults
        /\ optionsPrompt => Keys(parameters) \subseteq {specs[i].name : i \in 1 .. Len(specs)}

\* prompting is skipped; a key is defined by the defaults, the overrides and
\* the flags with three values and the flag value is sent; another key is
\* defined by the defaults only and is sent with its default
C1_Witness ==
    /\ bpc = "trigger"
    /\ ~optionsPrompt
    /\ \E k \in Keys(parameters) \cap Keys(overrideParams) \cap Keys(flagParams) :
        /\ PropOf(parameters, k) # PropOf(overrideParams, k)
        /\ PropOf(overrideParams, k) # PropOf(flagParams, k)
        /\ PropOf(parameters, k) # PropOf(flagParams, k)
        /\ PropOf(mergedParams, k) = PropOf(flagParams, k)
    /\ \E k \in Keys(parameters) \ (Keys(overrideParams) \cup Keys(flagParams)) :
        /\ PropOf(parameters, k) = Str(<<"x">>)
        /\ PropOf(mergedParams, k) = Str(<<"x">>)

(***************************************************************************)
(* Further claims about the extractor, checked under SpecExtractor.        *)
(***************************************************************************)
\* C11: every spec list the extractor produces has non-empty names, and no
\* two of its specs have the same name.
C11_NamesNonEmptyUnique ==
    xpc = "returned" =>
        /\ \A i \in 1 .. Len(specs) : specs[i].name # <<>>
        /\ \A i, j \in 1 .. Len(specs) : i # j => specs[i].name # specs[j].name

(***************************************************************************)
(* Claims about promptForParameters, checked under SpecPrompter.           *)
(***************************************************************************)
\* the param whose prompt is shown
Prompted == specs[pidx]

\* a select is shown: the param has a non-empty list of allowed values
SelectShown ==
    /\ bpc = "paramPrompt"
    /\ Prompted.values.kind = "array"
    /\ Len(Prompted.values.val) > 0

\* the default is one of the allowed values, compared by value
DefaultIsMember ==
    \E i \in 1 .. Len(Prompted.values.val) : Prompted.values.val[i] = Prompted.default

\* the default is one of the allowed values, compared with ===: a sequence
\* or a mapping is equal to no other value
DefaultIsStrictMember ==
    /\ Prompted.default.kind \notin {"array", "object"}
    /\ DefaultIsMember

\* C12 as stated: the preselected value of a select is the declared default
\* when the default is a member of the allowed values, and the first allowed
\* value when the default is absent or not a member.
C12_PreselectedMember ==
    SelectShown =>
        initialValue = IF DefaultIsMember THEN Prompted.default
                       ELSE Prompted.values.val[1]

\* C12: the preselected value of a select is the declared default when the
\* default is strictly equal (===) to one of the allowed values, and the
\* first allowed value when the default is absent or strictly equal to none.
C12_PreselectedStrictMember ==
    SelectShown =>
        initialValue = IF DefaultIsStrictMember THEN Prompted.default
                       ELSE Prompted.values.val[1]

\* a select is shown whose default is the second of the allowed values and
\* is preselected
C12_Witness ==
    /\ SelectShown
    /\ Len(Prompted.values.val) = 2
    /\ Prompted.default = Prompted.values.val[2]
    /\ Prompted.default # Prompted.values.val[1]
    /\ Prompted.default.kind = "string"
    /\ initialValue = Prompted.default

(***************************************************************************)
(* Claims about parseParams and parseUnknownParamFlags, checked under      *)
(* SpecParser.                                                             *)
(***************************************************************************)
\* the place of the first '=' of a text that has one
FirstEq(t) == CHOOSE p \in 1 .. Len(t) : t[p] = "=" /\ \A q \in 1 .. p - 1 : t[q] # "="

HasEq(t) == \E p \in 1 .. Len(t) : t[p] = "="

KeyOf(t) == Trim(SubSeq(t, 1, FirstEq(t) - 1))

ValueOf(t) == SubSeq(t, FirstEq(t) + 1, Len(t))

\* an optional sign, then digits with an optional fraction
IsNumeral(t) ==
    LET body == IF t # <<>> /\ Head(t) \in {"+", "-"} THEN Tail(t) ELSE t
        dots == {p \in 1 .. Len(body) : body[p] = "."}
    IN  /\ Cardinality(dots) <= 1
        /\ \A p \in 1 .. Len(body) : p \in dots \/ IsDigit(body[p])
        /\ \E p \in 1 .. Len(body) : IsDigit(body[p])

\* the coercion of a text: the literals, then numerals, then the text itself
Coerced(t) ==
    IF t = TextTrue THEN Bool(TRUE)
    ELSE IF t = TextFalse THEN Bool(FALSE)
    ELSE IF IsNumeral(Trim(t)) THEN Num(StringToNumber(t))
    ELSE Str(t)

\* the places of the --param entries that contribute
Contributing == {i \in 1 .. Len(cliInput) : HasEq(cliInput[i]) /\ KeyOf(cliInput[i]) # <<>>}

\* the last entry written for the key of entry i
IsLastOfKey(i) ==
    \A j \in Contributing : j > i => KeyOf(cliInput[j]) # KeyOf(cliInput[i])

\* the keys are those of the contributing entries, and each key holds what
\* its last entry gives
ParamsAre(valueOf(_)) ==
    /\ Keys(cliParams) = {KeyOf(cliInput[i]) : i \in Contributing}
    /\ \A i \in Contributing :
        IsLastOfKey(i) => PropOf(cliParams, KeyOf(cliInput[i])) = valueOf(cliInput[i])

CoercedValue(t) == Coerced(ValueOf(t))

CoercedTrimmedValue(t) == Coerced(Trim(ValueOf(t)))

\* C13 (as stated): parseParams gives every entry with an '=' and a non-empty
\* trimmed key a property named by the trimmed text before the first '=',
\* whose value is everything after that first '=' coerced (true/false to
\* booleans, numerals to numbers, anything else the text as it is); other
\* entries give nothing and the last entry of a key wins.
C13_ValueIsEverythingAfterEq ==
    ppc = "params" => ParamsAre(CoercedValue)

\* C13 (amended): the same, with the value being the text after the first
\* '=' with its surrounding white space removed, then coerced.
C13_ValueIsTrimmedAfterEq ==
    ppc = "params" => ParamsAre(CoercedTrimmedValue)

\* three entries: a key written twice, the last with a second '=' in its
\* padded value, and an entry without '='
C13_Witness ==
    /\ ppc = "params"
    /\ Len(cliInput) = 3
    /\ \E i, j \in Contributing :
        /\ i < j
        /\ KeyOf(cliInput[i]) = KeyOf(cliInput[j])
        /\ IsLastOfKey(j)
        /\ HasEq(ValueOf(cliInput[j]))
    /\ \E i \in 1 .. 3 : ~HasEq(cliInput[i])
    /\ \E i \in Contributing : IsLastOfKey(i) /\ Trim(ValueOf(cliInput[i])) # ValueOf(cliInput[i])


\* the forms of a leftover argument
IsNoForm(t) == Len(t) >= 5 /\ SubSeq(t, 1, 5) = <<"-", "-", "n", "o", "-">>

IsEqForm(t) == Len(t) >= 2 /\ SubSeq(t, 1, 2) = <<"-", "-">> /\ ~IsNoForm(t) /\ HasEq(t)

IsBareForm(t) == Len(t) > 2 /\ SubSeq(t, 1, 2) = <<"-", "-">> /\ ~IsNoForm(t) /\ ~HasEq(t)

NameOfFlag(t) ==
    IF IsNoForm(t) THEN SubSeq(t, 6, Len(t))
    ELSE IF HasEq(t) THEN SubSeq(t, 3, FirstEq(t) - 1)
    ELSE SubSeq(t, 3, Len(t))

\* the places of the arguments that are flags with a name
Flags ==
    {i \in 1 .. Len(cliInput) :
        /\ IsNoForm(cliInput[i]) \/ IsEqForm(cliInput[i]) \/ IsBareForm(cliInput[i])
        /\ NameOfFlag(cliInput[i]) # <<>>}

IsLastFlagOfName(i) ==
    \A j \in Flags : j > i => NameOfFlag(cliInput[j]) # NameOfFlag(cliInput[i])

MinusDigit(t) == Len(t) >= 2 /\ t[1] = "-" /\ IsDigit(t[2])

\* the argument at place i is followed by a value
TakesValue(i) ==
    /\ i < Len(cliInput)
    /\ cliInput[i + 1] # <<>>
    /\ cliInput[i + 1][1] # "-" \/ MinusDigit(cliInput[i + 1])

\* the argument at place i is last, or followed by what looks like a flag
IsSwitch(i) ==
    \/ i = Len(cliInput)
    \/ /\ cliInput[i + 1] # <<>>
       /\ cliInput[i + 1][1] = "-"
       /\ ~MinusDigit(cliInput[i + 1])

Ended == bpc \in {"done", "exited"}

\* the command waited for the run
Waited == wpc # "idle"

\* the command ran to its end with no error, and the run it waited for
\* succeeded
FinishedWell ==
    /\ bpc = "done"
    /\ buildError = "none"
    /\ Waited => wpc = "returned" /\ outcome.result = "succeeded"

\* C15: when a build or run command has ended, its exit code is 0 exactly
\* when it ran to its end without an error and, if it waited, the run
\* completed with the result succeeded; otherwise (an error, a timeout or
\* service error included, or an awaited run with another result) it is 1.
C15_ExitCode ==
    Ended =>
        /\ exitCode \in {0, 1}
        /\ exitCode = 0 <=> FinishedWell
        /\ wpc \in {"timedout", "failed"} => exitCode = 1 /\ buildError = outcome.message

\* a run command (no pipeline was resolved) waited for a run that completed
\* with the result failed: no error, exit code 1
C15_Witness ==
    /\ bpc = "done"
    /\ rpc = "idle"
    /\ calls = <<"triggerPipelineRun">>
    /\ wpc = "returned"
    /\ outcome.state = "completed"
    /\ outcome.result = "failed"
    /\ buildError = "none"
    /\ exitCode = 1


\* C16: when a prompt of the command has been cancelled, the invocation has
\* ended there (no run was triggered and no run was queried after it) as a
\* normal exit: exit code 0 and no error.
C16_CancelIsNormalExit ==
    bpc = "exited" =>
        /\ "triggerPipelineRun" \notin {calls[i] : i \in 1 .. Len(calls)}
        /\ queries = 0
        /\ buildError = "none"
        /\ exitCode = 0


\* triggerPipelineRun was called
TriggerMade == "triggerPipelineRun" \in {calls[i] : i \in 1 .. Len(calls)}

\* the text of a local file (the one of the selection's path, or the one
\* the locator gave) did not parse
LocalParseFailed == xpc = "threw" /\ yamlLabel \in {"path", "pick"}

\* the selection names a local file and the definition is not from it: it
\* could not be read
LocalReadFailed ==
    /\ rpc = "returned"
    /\ Truthy(selection.path)
    /\ bpc \notin {"resolve", "branchMethod", "branchInput", "definition", "readLocal"}
    /\ yamlLabel # "path"

\* C17: a local definition file that cannot be read or cannot be parsed
\* does not end the build command: once the action has run to its end after
\* such a failure, the run was triggered (unless the text of a later, remote
\* source did not parse).
C17_LocalDefinitionFailureNonFatal ==
    /\ bpc = "done" /\ LocalParseFailed => TriggerMade
    /\ bpc = "done" /\ LocalReadFailed /\ xpc # "threw" => TriggerMade


\* how many times a service call is in the log
CallCount(name) == Cardinality({i \in 1 .. Len(calls) : calls[i] = name})

\* the trigger has thrown: the error of the service with no query made
TriggerFailed ==
    /\ bpc = "done"
    /\ TriggerMade
    /\ buildError = ApiErrorMessage
    /\ thrownAt = 0

\* C18: in one build or run invocation triggerPipelineRun is called at most
\* once, as the last call of the log, after the selection (build) and with
\* the parameters merged; getRun is queried only in a wait that was started
\* after the trigger returned; without a wait, or when the trigger has
\* failed, no getRun is made; a call that failed is not made again
\* (getPipelineYaml and triggerPipelineRun at most once each, no query
\* after the one that threw).
C18_CallOrder ==
    /\ CallCount("triggerPipelineRun") <= 1
    /\ CallCount("getPipelineYaml") <= 1
    /\ TriggerMade =>
        /\ calls[Len(calls)] = "triggerPipelineRun"
        /\ bpc \in {"trigger", "wait", "runTrigger", "runWait", "done"}
    /\ bpc = "trigger" =>
        /\ rpc = "returned"
        /\ mergedParams = Spread(Spread(Spread(<<>>, parameters), overrideParams), flagParams)
    /\ bpc = "runTrigger" => mergedParams = Spread(parameters, flagParams)
    /\ wpc # "idle" => TriggerMade /\ bpc \in {"wait", "runWait", "done"}
    /\ queries > 0 => wpc # "idle"
    /\ bpc \in {"trigger", "runTrigger"} => queries = 0
    /\ TriggerFailed => wpc = "idle" /\ queries = 0
    /\ wpc = "failed" => queries = thrownAt

\* a build command looked the definition up, triggered, and has ended after
\* a wait of three queries
C18_Witness ==
    /\ bpc = "done"
    /\ calls = <<"getPipelineYaml", "triggerPipelineRun">>
    /\ wpc = "returned"
    /\ queries = 3
    /\ exitCode = 0


(***************************************************************************)
(* Further claims about waitForCompletion, checked under SpecMonitor.      *)
(***************************************************************************)
\* the queries that have returned a response
Answered == IF thrownAt = 0 THEN queries ELSE queries - 1

QueryBound == (options.timeoutMs \div options.pollMs) + 2

\* C20: the poll interval parsePollMs gives is positive; a wait whose
\* queries all return and whose suspensions each advance the clock by at
\* least pollMs makes at most floor(timeoutMs / pollMs) + 2 queries and
\* ends: it returns a completed run or fails with the timeout error.
C20_MonitorTerminates ==
    /\ [](wpc # "idle" => options.pollMs > 0 /\ queries <= QueryBound)
    /\ (wpc = "query") ~> (wpc \in {"returned", "timedout"})

\* a wait has timed out at its last allowed query
C20_Witness ==
    /\ wpc = "timedout"
    /\ options.pollMs = 1
    /\ options.timeoutMs = 2
    /\ queries = 4
    /\ queries = QueryBound

(***************************************************************************)
(* C21: buildPipelineMap loses no pipeline: for pipelines with pairwise    *)
(* distinct ids the catalog has as many keys as there are pipelines, and   *)
(* every pipeline is found, with its id and name, under some key.          *)
(***************************************************************************)
Returned == mpc = "returned"

Cataloged(pipeline) ==
    \E k \in 1 .. Len(pipelineMap) :
        pipelineMap[k][2] = PipelineInfo(pipeline.id, pipeline.name)

C21_NoPipelineLost ==
    Returned =>
        /\ Cardinality(Keys(pipelineMap)) = Len(pipelineList)
        /\ \A i \in 1 .. Len(pipelineList) : Cataloged(pipelineList[i])


====
